---- MODULE Spec2Model ----
(***************************************************************************)
(* A model of the congestion-aware analytical network simulator:          *)
(*   - the event queue, devices, links and chunks (Link.cpp),              *)
(*   - the FatTree, ExpanderGraph / SwitchOrExpander topologies,           *)
(*   - the dimension-ordered MultiDimTopology.                             *)
(* Each part has its own specification over the shared variables.          *)
(***************************************************************************)
EXTENDS Integers, Sequences, FiniteSets, TLC

(***************************************************************************)
(* Bounds of the link simulation.                                          *)
(***************************************************************************)
NDev == 2
MaxChunks == 3
MaxRouteLen == 3
MaxSize == 2
MaxBandwidth == 2
MaxLatency == 1

VARIABLES
    \* EventQueue
    current_time,          \* EventQueue::current_time
    event_queue,           \* pending events, sorted by time, FIFO among equal times
    \* Topology / Device / Link
    links,                 \* set of <<src, dest>>: the links devices own
    bandwidth,             \* Link::bandwidth (GB/s) of every link
    latency,               \* Link::latency (ns) of every link
    busy,                  \* Link::busy, per link
    pending_chunks,        \* Link::pending_chunks, per link
    random_queue_enabled,  \* Link::random_queue_enabled
    \* Chunk
    chunks,                \* sequence of chunk records, in order of Topology::send
    failed,                \* "" or the assertion / precondition that aborted the run
    \* history of the run
    lastSend,              \* the Link::send call of the last step, if any
    sendLog,               \* per link: chunks in the order Link::send received them
    arriveLog,             \* per link: chunks in the order their arrival events fired
    workload,              \* scenario and position in its fixed list of sends
    \* Topology
    topology,              \* the constructed topology: its kind and parameters
    routed                 \* the last route() / compute_hops_count() call

simVars == <<current_time, event_queue, links, bandwidth, latency, busy,
             pending_chunks, random_queue_enabled, chunks, failed,
             lastSend, sendLog, arriveLog, workload>>

vars == <<simVars, topology, routed>>

Dev == 0 .. (NDev - 1)

NoSend == [called |-> FALSE, link |-> <<0, 0>>, chunk |-> 0, time |-> 0,
           was_busy |-> FALSE, events_before |-> 0]

NoWorkload == [scenario |-> "free", next |-> 0]

NoTopology == [kind |-> "links"]

NoRoute == [called |-> FALSE]

(***************************************************************************)
(* common/NetworkFunction.cpp                                              *)
(***************************************************************************)
bw_GBps_to_Bpns(bw_GBps) == bw_GBps

(***************************************************************************)
(* Link: delays.  Bandwidth and latency are whole numbers here, so the     *)
(* double division followed by static_cast<EventTime> is \div.             *)
(***************************************************************************)
bandwidth_Bpns == bw_GBps_to_Bpns(bandwidth)

serialization_delay(chunk_size) == chunk_size \div bandwidth_Bpns

\* a plausible slip: the arrival is scheduled after the serialization only
communication_delay_NoLatency(chunk_size) == chunk_size \div bandwidth_Bpns

\* a plausible slip: the latency is added after scaling by the bandwidth
communication_delay_Scaled(chunk_size) ==
    (latency + chunk_size) \div bandwidth_Bpns

communication_delay(chunk_size) ==
    (latency * bandwidth_Bpns + chunk_size) \div bandwidth_Bpns

(***************************************************************************)
(* EventQueue::schedule_event: the event goes after every event whose time *)
(* is not later (FIFO among equal times).                                  *)
(***************************************************************************)
schedule_event(eq, e) ==
    LET n == Cardinality({i \in 1 .. Len(eq) : eq[i].time <= e.time})
    IN  SubSeq(eq, 1, n) \o <<e>> \o SubSeq(eq, n + 1, Len(eq))

(***************************************************************************)
(* The simulation state as one record, so that a handler's nested calls    *)
(* compose.                                                                *)
(***************************************************************************)
Cur == [time |-> current_time, eq |-> event_queue, busy |-> busy,
        pend |-> pending_chunks, chunks |-> chunks, failed |-> failed,
        lastSend |-> NoSend, sendLog |-> sendLog, arriveLog |-> arriveLog]

Install(s) ==
    /\ current_time' = s.time
    /\ event_queue' = s.eq
    /\ busy' = s.busy
    /\ pending_chunks' = s.pend
    /\ chunks' = s.chunks
    /\ failed' = s.failed
    /\ lastSend' = s.lastSend
    /\ sendLog' = s.sendLog
    /\ arriveLog' = s.arriveLog

Fail(s, why) == IF s.failed = "" THEN [s EXCEPT !.failed = why] ELSE s

(***************************************************************************)
(* Link::schedule_chunk_transmission                                       *)
(***************************************************************************)
schedule_chunk_transmission_FreeAtArrival(s, l, c) ==
    IF s.busy[l] THEN Fail(s, "assert(!busy)")
    ELSE
    LET chunk_size == s.chunks[c].size
        arrival == [time |-> s.time + communication_delay(chunk_size),
                    callback |-> "chunk_arrived_next_device",
                    chunk |-> c, link |-> l]
        free == [time |-> s.time + communication_delay(chunk_size),
                 callback |-> "link_become_free",
                 chunk |-> c, link |-> l]
    IN  [s EXCEPT !.busy[l] = TRUE,
                  !.eq = schedule_event(schedule_event(@, arrival), free)]

schedule_chunk_transmission_Absolute(s, l, c) ==
    IF s.busy[l] THEN Fail(s, "assert(!busy)")
    ELSE
    LET chunk_size == s.chunks[c].size
        arrival == [time |-> s.time + communication_delay(chunk_size),
                    callback |-> "chunk_arrived_next_device",
                    chunk |-> c, link |-> l]
        free == [time |-> serialization_delay(chunk_size),
                 callback |-> "link_become_free",
                 chunk |-> c, link |-> l]
    IN  [s EXCEPT !.busy[l] = TRUE,
                  !.eq = schedule_event(schedule_event(@, arrival), free)]

schedule_chunk_transmission(s, l, c) ==
    IF s.busy[l] THEN Fail(s, "assert(!busy)")
    ELSE
    LET chunk_size == s.chunks[c].size
        arrival == [time |-> s.time + communication_delay(chunk_size),
                    callback |-> "chunk_arrived_next_device",
                    chunk |-> c, link |-> l]
        free == [time |-> s.time + serialization_delay(chunk_size),
                 callback |-> "link_become_free",
                 chunk |-> c, link |-> l]
    IN  [s EXCEPT !.busy[l] = TRUE,
                  !.eq = schedule_event(schedule_event(@, arrival), free)]

(***************************************************************************)
(* Link::send                                                              *)
(***************************************************************************)
\* a plausible slip: the busy test is forgotten
Link_send_NoQueue(s, l, c) ==
    LET t == [s EXCEPT !.lastSend = [called |-> TRUE, link |-> l, chunk |-> c,
                                     time |-> s.time, was_busy |-> s.busy[l],
                                     events_before |-> Len(s.eq)],
                       !.sendLog[l] = Append(@, c)]
    IN  schedule_chunk_transmission(t, l, c)

\* a plausible slip: push_front instead of push_back
Link_send_PushFront(s, l, c) ==
    LET t == [s EXCEPT !.lastSend = [called |-> TRUE, link |-> l, chunk |-> c,
                                     time |-> s.time, was_busy |-> s.busy[l],
                                     events_before |-> Len(s.eq)],
                       !.sendLog[l] = Append(@, c)]
    IN  IF s.busy[l]
        THEN [t EXCEPT !.pend[l] = <<c>> \o @]
        ELSE schedule_chunk_transmission(t, l, c)

Link_send(s, l, c) ==
    LET t == [s EXCEPT !.lastSend = [called |-> TRUE, link |-> l, chunk |-> c,
                                     time |-> s.time, was_busy |-> s.busy[l],
                                     events_before |-> Len(s.eq)],
                       !.sendLog[l] = Append(@, c)]
    IN  IF s.busy[l]
        THEN [t EXCEPT !.pend[l] = Append(@, c)]
        ELSE schedule_chunk_transmission(t, l, c)

(***************************************************************************)
(* Link::process_pending_transmission; idx is rand() % size + 1 under the  *)
(* random discipline and 1 (the front) otherwise.                          *)
(***************************************************************************)
RemoveAt(q, i) == SubSeq(q, 1, i - 1) \o SubSeq(q, i + 1, Len(q))

\* a plausible slip: the queue is served from the back
process_pending_transmission_Back(s, l, idx) ==
    LET q == s.pend[l]
    IN  schedule_chunk_transmission([s EXCEPT !.pend[l] = RemoveAt(q, Len(q))],
                                    l, q[Len(q)])

\* a plausible slip: the chunk served stays in the queue
process_pending_transmission_NoErase(s, l, idx) ==
    LET q == s.pend[l]
        i == IF random_queue_enabled /\ Len(q) > 1 THEN idx ELSE 1
    IN  schedule_chunk_transmission(s, l, q[i])

\* a plausible slip: clear() instead of erase(it)
process_pending_transmission_Clear(s, l, idx) ==
    LET q == s.pend[l]
        i == IF random_queue_enabled /\ Len(q) > 1 THEN idx ELSE 1
    IN  schedule_chunk_transmission([s EXCEPT !.pend[l] = <<>>], l, q[i])

process_pending_transmission(s, l, idx) ==
    LET q == s.pend[l]
        i == IF random_queue_enabled /\ Len(q) > 1 THEN idx ELSE 1
    IN  schedule_chunk_transmission([s EXCEPT !.pend[l] = RemoveAt(q, i)], l, q[i])

(***************************************************************************)
(* Link::link_become_free                                                  *)
(***************************************************************************)
\* a plausible slip: the link is freed and the pending chunks are forgotten
link_become_free_NoPending(s, l, idx) == [s EXCEPT !.busy[l] = FALSE]

\* a plausible slip: set_free only on the way to the next transmission
link_become_free_KeepBusy(s, l, idx) ==
    IF s.pend[l] # <<>>
    THEN process_pending_transmission([s EXCEPT !.busy[l] = FALSE], l, idx)
    ELSE s

\* a plausible slip: a single waiting chunk is not served
link_become_free_OffByOne(s, l, idx) ==
    LET t == [s EXCEPT !.busy[l] = FALSE]
    IN  IF Len(t.pend[l]) > 1 THEN process_pending_transmission(t, l, idx)
        ELSE t

link_become_free(s, l, idx) ==
    LET t == [s EXCEPT !.busy[l] = FALSE]
    IN  IF t.pend[l] # <<>> THEN process_pending_transmission(t, l, idx) ELSE t

(***************************************************************************)
(* Device::send: at the destination the callback is invoked, otherwise the *)
(* chunk goes to the link towards the next device of its route.            *)
(***************************************************************************)
Device_send(s, c) ==
    LET ch == s.chunks[c]
    IN  IF ch.route = <<>> THEN Fail(s, "empty route")
        ELSE IF ch.cursor = Len(ch.route)
        THEN [s EXCEPT !.chunks[c].callbacks = @ + 1,
                       !.chunks[c].doneAt = s.time]
        ELSE LET l == <<ch.route[ch.cursor], ch.route[ch.cursor + 1]>>
             IN  IF l \notin links THEN Fail(s, "not connected")
                 ELSE Link_send(s, l, c)

(***************************************************************************)
(* Chunk::chunk_arrived_next_device                                        *)
(***************************************************************************)
chunk_arrived_next_device(s, c, l) ==
    Device_send([s EXCEPT !.chunks[c].cursor = @ + 1,
                          !.arriveLog[l] = Append(@, c)], c)

(***************************************************************************)
(* Topology::send of a new chunk, created by the workload at current_time. *)
(* solo: no other chunk is in the network between its send and its         *)
(* completion.                                                             *)
(***************************************************************************)
Delivered(ch) == ch.callbacks > 0

Topology_send(s, route, size) ==
    LET c == Len(s.chunks) + 1
        others == [i \in 1 .. Len(s.chunks) |->
                      IF Delivered(s.chunks[i]) THEN s.chunks[i]
                      ELSE [s.chunks[i] EXCEPT !.solo = FALSE]]
        new == [size |-> size, route |-> route, cursor |-> 1,
                sentAt |-> s.time, doneAt |-> -1, callbacks |-> 0,
                solo |-> \A i \in 1 .. Len(s.chunks) : Delivered(s.chunks[i])]
    IN  Device_send([s EXCEPT !.chunks = Append(others, new)], c)

(***************************************************************************)
(* EventQueue::proceed: pop the earliest event, advance the time, fire it. *)
(***************************************************************************)
PickSet(e) ==
    IF /\ e.callback = "link_become_free"
       /\ random_queue_enabled
       /\ Len(pending_chunks[e.link]) > 1
    THEN 1 .. Len(pending_chunks[e.link])
    ELSE {1}

Fire(s, e, idx) ==
    IF e.callback = "chunk_arrived_next_device"
    THEN chunk_arrived_next_device(s, e.chunk, e.link)
    ELSE link_become_free(s, e.link, idx)

finished == event_queue = <<>>

Proceed ==
    /\ failed = ""
    /\ ~finished
    /\ LET e == Head(event_queue)
       IN  \E idx \in PickSet(e) :
              Install(Fire([Cur EXCEPT !.time = e.time, !.eq = Tail(event_queue)],
                           e, idx))
    /\ UNCHANGED <<links, bandwidth, latency, random_queue_enabled, workload,
                   topology, routed>>

(***************************************************************************)
(* The workload of the link simulation: any chunk, at any moment, on any   *)
(* route whose consecutive devices are linked.                             *)
(***************************************************************************)
LinkedRoute(r) == \A i \in 1 .. (Len(r) - 1) : <<r[i], r[i + 1]>> \in links

Routes == UNION {[1 .. n -> Dev] : n \in 1 .. MaxRouteLen}

Send ==
    /\ failed = ""
    /\ workload.scenario = "free"
    /\ Len(chunks) < MaxChunks
    /\ \E r \in Routes, size \in 1 .. MaxSize :
          /\ LinkedRoute(r)
          /\ Install(Topology_send(Cur, r, size))
    /\ UNCHANGED <<links, bandwidth, latency, random_queue_enabled, workload,
                   topology, routed>>

AllPairs == {<<u, v>> \in Dev \X Dev : u # v}

InitSim(ls) ==
    /\ current_time = 0
    /\ event_queue = <<>>
    /\ links = ls
    /\ busy = [l \in ls |-> FALSE]
    /\ pending_chunks = [l \in ls |-> <<>>]
    /\ chunks = <<>>
    /\ failed = ""
    /\ lastSend = NoSend
    /\ sendLog = [l \in ls |-> <<>>]
    /\ arriveLog = [l \in ls |-> <<>>]

Init ==
    /\ InitSim(AllPairs)
    /\ bandwidth \in 1 .. MaxBandwidth
    /\ latency \in 0 .. MaxLatency
    /\ random_queue_enabled \in BOOLEAN
    /\ workload = NoWorkload
    /\ topology = NoTopology
    /\ routed = NoRoute

Next == Send \/ Proceed

Spec == Init /\ [][Next]_vars

(***************************************************************************)
(* The link simulation under the Random queue discipline, with the run     *)
(* loop `while (!finished()) proceed()` always going on: proceed is taken  *)
(* whenever an event is queued.                                            *)
(***************************************************************************)
InitRandom ==
    /\ InitSim(AllPairs)
    /\ bandwidth = 1
    /\ latency \in 0 .. MaxLatency
    /\ random_queue_enabled = TRUE
    /\ workload = NoWorkload
    /\ topology = NoTopology
    /\ routed = NoRoute

\* ENABLED <<Proceed>>_vars, written out: proceed pops an event whenever
\* the run has not failed and the queue is not empty
ProceedEnabled == failed = "" /\ ~finished

\* weak fairness of Proceed, with ProceedEnabled for its ENABLED
RunLoop_fairness == []<>(~ProceedEnabled) \/ []<><<Proceed>>_vars

SpecRandom == InitRandom /\ [][Next]_vars /\ RunLoop_fairness

(***************************************************************************)
(* Basic topologies Ring, FullyConnected and Switch over n NPUs.           *)
(***************************************************************************)
Ring_links(n) ==
    UNION {{<<i, (i + 1) % n>>, <<(i + 1) % n, i>>} : i \in 0 .. (n - 1)}

Ring_route(n, src, dest) ==
    LET clockwise == (dest - src + n) % n
        counter == n - clockwise
        step == IF clockwise <= counter THEN 1 ELSE n - 1
        hops == IF clockwise <= counter THEN clockwise ELSE counter
    IN  [i \in 1 .. (hops + 1) |-> (src + (i - 1) * step) % n]

FullyConnected_links(n) ==
    {<<i, j>> \in (0 .. (n - 1)) \X (0 .. (n - 1)) : i # j}

FullyConnected_route(src, dest) ==
    IF src = dest THEN <<src>> ELSE <<src, dest>>

Switch_links(n) ==
    UNION {{<<i, n>>, <<n, i>>} : i \in 0 .. (n - 1)}

Switch_route(n, src, dest) ==
    IF src = dest THEN <<src>> ELSE <<src, n, dest>>

(***************************************************************************)
(* The congestion-aware scenarios of the test suite: one chunk from NPU 1  *)
(* to NPU 4 on Ring, FullyConnected and Switch, and the all-gather on the  *)
(* Ring: every chunk is sent first, then the event loop runs until the     *)
(* queue is empty.                                                         *)
(***************************************************************************)
TestNpus == 8
TestBandwidth == 50
TestLatency == 500
TestChunkSize == 1048576

Scenarios == {"Ring", "FullyConnected", "Switch", "AllGatherOnRing"}

ScenarioLinks(sc) ==
    CASE sc = "FullyConnected" -> FullyConnected_links(TestNpus)
      [] sc = "Switch" -> Switch_links(TestNpus)
      [] OTHER -> Ring_links(TestNpus)

ScenarioRoute(sc, src, dest) ==
    CASE sc = "FullyConnected" -> FullyConnected_route(src, dest)
      [] sc = "Switch" -> Switch_route(TestNpus, src, dest)
      [] OTHER -> Ring_route(TestNpus, src, dest)

\* for (i) for (j) if (i == j) continue; ...
AllGatherPairs ==
    [p \in 1 .. (TestNpus * (TestNpus - 1)) |->
        LET i == (p - 1) \div (TestNpus - 1)
            r == (p - 1) % (TestNpus - 1)
        IN  <<i, IF r < i THEN r ELSE r + 1>>]

ScenarioSends(sc) ==
    CASE sc = "free" -> <<>>
      [] sc = "AllGatherOnRing" -> AllGatherPairs
      [] OTHER -> <<<<1, 4>>>>

AllSent == workload.next > Len(ScenarioSends(workload.scenario))

InitScenario ==
    /\ \E sc \in Scenarios :
          /\ workload = [scenario |-> sc, next |-> 1]
          /\ InitSim(ScenarioLinks(sc))
          /\ topology = [kind |-> IF sc = "AllGatherOnRing" THEN "Ring" ELSE sc,
                         npus_count |-> TestNpus]
    /\ bandwidth = TestBandwidth
    /\ latency = TestLatency
    /\ random_queue_enabled = FALSE
    /\ routed = NoRoute

SendNext ==
    /\ failed = ""
    /\ workload.scenario # "free"
    /\ ~AllSent
    /\ LET pair == ScenarioSends(workload.scenario)[workload.next]
           route == ScenarioRoute(workload.scenario, pair[1], pair[2])
       IN  Install(Topology_send(Cur, route, TestChunkSize))
    /\ workload' = [workload EXCEPT !.next = @ + 1]
    /\ UNCHANGED <<links, bandwidth, latency, random_queue_enabled,
                   topology, routed>>

RunLoop ==
    /\ workload.scenario # "free"
    /\ AllSent
    /\ Proceed

NextScenario == SendNext \/ RunLoop

SpecScenario == InitScenario /\ [][NextScenario]_vars

(***************************************************************************)
(* Topology::connect: a link in each direction.                            *)
(***************************************************************************)
Topology_connect(src, dest) == {<<src, dest>>, <<dest, src>>}

(***************************************************************************)
(* A chunk sent along the route that the last route() call returned, then  *)
(* the event loop.  One chunk per run.                                     *)
(***************************************************************************)
SendRouted ==
    /\ failed = ""
    /\ routed.called
    /\ chunks = <<>>
    /\ \E size \in 1 .. MaxSize :
          Install(Topology_send(Cur, routed.route, size))
    /\ UNCHANGED <<links, bandwidth, latency, random_queue_enabled, workload,
                   topology, routed>>

(***************************************************************************)
(* FatTree::FatTree                                                        *)
(***************************************************************************)
MaxFatTreeK == 4
MaxFatTreeNpus == 8

num_leaf_switches(k) == (k * k) \div 2
num_spine_switches(k) == (k * k) \div 4
num_core_switches(k) == (k \div 2) * (k \div 2)

leaf_switch_offset(n) == n
spine_switch_offset(n, k) == n + num_leaf_switches(k)
core_switch_offset(n, k) == n + num_leaf_switches(k) + num_spine_switches(k)

FatTree_devices_count(n, k) ==
    n + num_leaf_switches(k) + num_spine_switches(k) + num_core_switches(k)

\* NPUs fill the leaves k/2 at a time; an NPU beyond the last leaf keeps the
\* value-initialised leaf 0.
npus_per_leaf_ideal(k) == k \div 2

npu_has_leaf(npu, k) == npu \div npus_per_leaf_ideal(k) < num_leaf_switches(k)

npu_to_leaf(npu, k) ==
    IF npu_has_leaf(npu, k) THEN npu \div npus_per_leaf_ideal(k) ELSE 0

FatTree_npu_links(n, k) ==
    UNION {Topology_connect(npu, leaf_switch_offset(n) + npu_to_leaf(npu, k)) :
              npu \in {x \in 0 .. (n - 1) : npu_has_leaf(x, k)}}

FatTree_leaf_links(n, k) ==
    UNION {Topology_connect(leaf_switch_offset(n) + pod * (k \div 2) + i,
                            spine_switch_offset(n, k) + pod * (k \div 2) + j) :
              <<pod, i, j>> \in (0 .. (k - 1)) \X (0 .. (k \div 2 - 1))
                                              \X (0 .. (k \div 2 - 1))}

FatTree_spine_links(n, k) ==
    UNION {Topology_connect(spine_switch_offset(n, k) + pod * (k \div 2) + i,
                            core_switch_offset(n, k) + i * (k \div 2) + j) :
              <<i, j, pod>> \in (0 .. (k \div 2 - 1)) \X (0 .. (k \div 2 - 1))
                                                     \X (0 .. (k - 1))}

FatTree_links(n, k) ==
    FatTree_npu_links(n, k) \cup FatTree_leaf_links(n, k)
                            \cup FatTree_spine_links(n, k)

(***************************************************************************)
(* FatTree::route.  dis is the sequence of values the uniform distribution *)
(* over [0, k/2) returns, in the order of the draws.                       *)
(***************************************************************************)
FatTree_route(n, k, routing_algorithm, src, dest, dis) ==
    LET src_leaf == npu_to_leaf(src, k)
        dest_leaf == npu_to_leaf(dest, k)
        src_pod == src_leaf \div (k \div 2)
        dest_pod == dest_leaf \div (k \div 2)
        src_leaf_in_pod == src_leaf % (k \div 2)
        dest_leaf_in_pod == dest_leaf % (k \div 2)
        random == routing_algorithm = "Random"
        spine_in_pod == IF random THEN dis[1] ELSE src_leaf_in_pod
        spine_index == src_pod * (k \div 2) + spine_in_pod
        src_spine_in_pod == IF random THEN dis[1] ELSE src_leaf_in_pod
        dest_spine_in_pod == IF random THEN dis[2] ELSE dest_leaf_in_pod
        src_spine_index == src_pod * (k \div 2) + src_spine_in_pod
        dest_spine_index == dest_pod * (k \div 2) + dest_spine_in_pod
        core_row == IF random THEN dis[3] ELSE src_spine_in_pod
        core_col == IF random THEN dis[4] ELSE dest_spine_in_pod
        core_index == core_row * (k \div 2) + core_col
    IN  IF src_leaf = dest_leaf
        THEN <<src, leaf_switch_offset(n) + src_leaf, dest>>
        ELSE IF src_pod = dest_pod
        THEN <<src, leaf_switch_offset(n) + src_leaf,
               spine_switch_offset(n, k) + spine_index,
               leaf_switch_offset(n) + dest_leaf, dest>>
        ELSE <<src, leaf_switch_offset(n) + src_leaf,
               spine_switch_offset(n, k) + src_spine_index,
               core_switch_offset(n, k) + core_index,
               spine_switch_offset(n, k) + dest_spine_index,
               leaf_switch_offset(n) + dest_leaf, dest>>

\* route() is const and keeps no cache, so a run asks for one route.
FatTreeRoute ==
    /\ failed = ""
    /\ topology.kind = "FatTree"
    /\ ~routed.called
    /\ \E src, dest \in 0 .. (topology.npus_count - 1) :
       \E dis \in [1 .. 4 -> 0 .. (topology.k \div 2 - 1)] :
          routed' = [called |-> TRUE, src |-> src, dest |-> dest,
                     route |-> FatTree_route(topology.npus_count, topology.k,
                                             topology.routing_algorithm,
                                             src, dest, dis)]
    /\ UNCHANGED <<simVars, topology>>

InitFatTree ==
    /\ \E k \in {x \in 2 .. MaxFatTreeK : x % 2 = 0},
          n \in 1 .. MaxFatTreeNpus :
          /\ topology \in [kind : {"FatTree"}, npus_count : {n}, k : {k},
                            routing_algorithm : {"Deterministic", "Random"}]
          /\ InitSim(FatTree_links(n, k))
    /\ bandwidth \in 1 .. MaxBandwidth
    /\ latency \in 0 .. MaxLatency
    /\ random_queue_enabled = FALSE
    /\ workload = NoWorkload
    /\ routed = NoRoute

NextFatTree == FatTreeRoute \/ SendRouted \/ Proceed

SpecFatTree == InitFatTree /\ [][NextFatTree]_vars

(***************************************************************************)
(* MultiDimTopology, dimension-ordered routing.  A dimension is a basic    *)
(* topology [kind, npus_count]; dimensions are numbered from 1.  All       *)
(* dimensions share the bandwidth and the latency of the model.            *)
(***************************************************************************)
MaxDims == 2
MaxDimNpus == 3
MaxMultiDimNpus == 6
MaxRouteCalls == 2

DimKinds == {"Ring", "FullyConnected", "Switch", "FatTree"}

\* FatTree dimensions are built with this k
DimFatTreeK == 2

BasicTopology_route(t, src, dest) ==
    CASE t.kind = "Ring" -> Ring_route(t.npus_count, src, dest)
      [] t.kind = "FullyConnected" -> FullyConnected_route(src, dest)
      [] t.kind = "Switch" -> Switch_route(t.npus_count, src, dest)
      [] t.kind = "FatTree" ->
            FatTree_route(t.npus_count, DimFatTreeK, "Deterministic",
                          src, dest, <<0, 0, 0, 0>>)

npus_count_per_dim(dims) == [d \in 1 .. Len(dims) |-> dims[d].npus_count]

RECURSIVE MultiDim_npus_count(_)
MultiDim_npus_count(npd) ==
    IF npd = <<>> THEN 1
    ELSE npd[Len(npd)] * MultiDim_npus_count(SubSeq(npd, 1, Len(npd) - 1))

\* MultiDimTopology::translate_address, from the last dimension down
RECURSIVE translate_from(_, _, _, _)
translate_from(npd, dim, leftover, denominator) ==
    IF dim = 0 THEN <<>>
    ELSE LET den == denominator \div npd[dim]
         IN  Append(translate_from(npd, dim - 1, leftover % den, den),
                    leftover \div den)

translate_address_Dim0Slowest(npd, npu_id) ==
    LET rev(q) == [i \in 1 .. Len(q) |-> q[Len(q) + 1 - i]]
    IN  rev(translate_from(rev(npd), Len(npd), npu_id,
                           MultiDim_npus_count(npd)))

translate_address(npd, npu_id) ==
    translate_from(npd, Len(npd), npu_id, MultiDim_npus_count(npd))

\* the assertions at the end of translate_address
address_in_range(npd, address) ==
    \A i \in 1 .. Len(npd) : 0 <= address[i] /\ address[i] < npd[i]

RECURSIVE address_to_global_from(_, _, _, _)
address_to_global_from(npd, address, d, global_id) ==
    IF d = 0 THEN global_id
    ELSE address_to_global_from(npd, address, d - 1,
                                global_id * npd[d] + address[d])

address_to_global(npd, address) ==
    address_to_global_from(npd, address, Len(npd), 0)

\* the ids of the local route, an id beyond the dimension read as a global id
local_id_of(npd, dim, id) ==
    IF id >= npd[dim] THEN translate_address(npd, id)[dim] ELSE id

local_ids_of(npd, dim, local_route, src_local_id, dest_local_id) ==
    LET ids == [i \in 1 .. Len(local_route) |->
                   local_id_of(npd, dim, local_route[i])]
        nonempty == IF ids = <<>> THEN <<src_local_id>> ELSE ids
    IN  IF nonempty[Len(nonempty)] # dest_local_id
        THEN Append(nonempty, dest_local_id) ELSE nonempty

local_ids_abort(npd, dim, local_route) ==
    \E i \in 1 .. Len(local_route) :
        /\ local_route[i] >= npd[dim]
        /\ ~address_in_range(npd, translate_address(npd, local_route[i]))

\* a plausible slip: the devices are connected again on every route
RECURSIVE walk_local_ids_Reconnect(_, _, _, _, _, _)
walk_local_ids_Reconnect(st, npd, dim, local_ids, i, first) ==
    IF st.aborted \/ i > Len(local_ids) THEN st
    ELSE LET local_id == local_ids[i]
         IN  IF ~(local_id >= 0 /\ local_id < npd[dim])
             THEN [st EXCEPT !.aborted = TRUE]
             ELSE IF first /\ local_id = st.address[dim]
             THEN walk_local_ids_Reconnect(st, npd, dim, local_ids, i + 1, FALSE)
             ELSE LET address == [st.address EXCEPT ![dim] = local_id]
                      global_id == address_to_global(npd, address)
                      prev_id == st.route[Len(st.route)]
                      next ==
                        IF prev_id # global_id
                        THEN [st EXCEPT
                                !.address = address,
                                !.links = @ \cup Topology_connect(prev_id,
                                                                  global_id),
                                !.created = @ \cup Topology_connect(prev_id,
                                                                    global_id),
                                !.route = Append(@, global_id)]
                        ELSE [st EXCEPT !.address = address]
                  IN  walk_local_ids_Reconnect(next, npd, dim, local_ids, i + 1, FALSE)

\* the loop over local_ids; st = [address, route, links, created, aborted],
\* created the links that connect() made during this call
RECURSIVE walk_local_ids(_, _, _, _, _, _)
walk_local_ids(st, npd, dim, local_ids, i, first) ==
    IF st.aborted \/ i > Len(local_ids) THEN st
    ELSE LET local_id == local_ids[i]
         IN  IF ~(local_id >= 0 /\ local_id < npd[dim])
             THEN [st EXCEPT !.aborted = TRUE]
             ELSE IF first /\ local_id = st.address[dim]
             THEN walk_local_ids(st, npd, dim, local_ids, i + 1, FALSE)
             ELSE LET address == [st.address EXCEPT ![dim] = local_id]
                      global_id == address_to_global(npd, address)
                      prev_id == st.route[Len(st.route)]
                      connected == <<prev_id, global_id>> \in st.links
                      next ==
                        IF prev_id # global_id
                        THEN [st EXCEPT
                                !.address = address,
                                !.links =
                                    IF connected THEN @
                                    ELSE @ \cup Topology_connect(prev_id,
                                                                 global_id),
                                !.created =
                                    IF connected THEN @
                                    ELSE @ \cup Topology_connect(prev_id,
                                                                 global_id),
                                !.route = Append(@, global_id)]
                        ELSE [st EXCEPT !.address = address]
                  IN  walk_local_ids(next, npd, dim, local_ids, i + 1, FALSE)

RECURSIVE route_dims(_, _, _, _)
route_dims(st, dims, dest_address, dim) ==
    IF st.aborted \/ dim > Len(dims) THEN st
    ELSE IF st.address[dim] = dest_address[dim]
    THEN route_dims(st, dims, dest_address, dim + 1)
    ELSE LET npd == npus_count_per_dim(dims)
             local_route == BasicTopology_route(dims[dim], st.address[dim],
                                                dest_address[dim])
         IN  IF local_ids_abort(npd, dim, local_route)
             THEN [st EXCEPT !.aborted = TRUE]
             ELSE route_dims(
                    walk_local_ids(st, npd, dim,
                                   local_ids_of(npd, dim, local_route,
                                                st.address[dim],
                                                dest_address[dim]),
                                   1, TRUE),
                    dims, dest_address, dim + 1)

\* MultiDimTopology::route: the route, the links after the lazy connects, and
\* whether an assertion stopped the program
MultiDim_route(dims, ls, src, dest) ==
    LET npd == npus_count_per_dim(dims)
        st == route_dims([address |-> translate_address(npd, src),
                          route |-> <<src>>, links |-> ls, created |-> {},
                          aborted |-> FALSE],
                         dims, translate_address(npd, dest), 1)
    IN  IF st.aborted THEN st
        ELSE [st EXCEPT !.aborted =
                  \/ st.route[1] # src
                  \/ st.route[Len(st.route)] # dest
                  \/ \E i \in 1 .. (Len(st.route) - 1) :
                        <<st.route[i], st.route[i + 1]>> \notin st.links]

\* a link created by the route starts free with nothing pending
WithNewLinks(f, ls, fresh) == [l \in ls |-> IF l \in DOMAIN f THEN f[l] ELSE fresh]

\* connect() puts a new Link object in place of the one it finds
Connected(f, ls, created, fresh) ==
    [l \in ls |-> IF l \in DOMAIN f /\ l \notin created THEN f[l] ELSE fresh]

\* route(src, dest) at any moment of the run
MultiDimRouteCall ==
    /\ failed = ""
    /\ topology.kind = "MultiDim"
    /\ routed.calls < MaxRouteCalls
    /\ \E src, dest \in 0 .. (topology.npus_count - 1) :
          LET r == MultiDim_route(topology.dims, links, src, dest)
          IN  /\ routed' = [called |-> TRUE, calls |-> routed.calls + 1,
                            src |-> src, dest |-> dest, route |-> r.route,
                            created |-> r.created, aborted |-> r.aborted]
              /\ failed' = IF r.aborted THEN "assert" ELSE ""
              /\ links' = r.links
              /\ busy' = Connected(busy, r.links, r.created, FALSE)
              /\ pending_chunks' =
                    Connected(pending_chunks, r.links, r.created, <<>>)
              /\ sendLog' = Connected(sendLog, r.links, r.created, <<>>)
              /\ arriveLog' = Connected(arriveLog, r.links, r.created, <<>>)
    /\ lastSend' = NoSend
    /\ UNCHANGED <<current_time, event_queue, bandwidth, latency,
                   random_queue_enabled, chunks, workload, topology>>

\* the routes are asked for before the chunk is sent
MultiDimRoute == chunks = <<>> /\ MultiDimRouteCall

Dimensions ==
    UNION {[1 .. n -> [kind : DimKinds, npus_count : 2 .. MaxDimNpus]] :
              n \in 1 .. MaxDims}

\* MultiDimTopology() and append_dimension for every dimension: the devices
\* are the NPUs and no link exists yet
InitMultiDim ==
    /\ \E dims \in Dimensions :
          /\ MultiDim_npus_count(npus_count_per_dim(dims)) <= MaxMultiDimNpus
          /\ topology = [kind |-> "MultiDim", dims |-> dims,
                         npus_count |->
                             MultiDim_npus_count(npus_count_per_dim(dims))]
    /\ InitSim({})
    /\ bandwidth = MaxBandwidth
    /\ latency = MaxLatency
    /\ random_queue_enabled = FALSE
    /\ workload = NoWorkload
    /\ routed = [called |-> FALSE, calls |-> 0]

NextMultiDim == MultiDimRoute \/ SendRouted \/ Proceed

\* two dimensions of two NPUs each, and routes asked for while the chunk of
\* an earlier route is on its way
InitMultiDimBusy ==
    /\ \E dims \in [1 .. 2 -> [kind : {"Ring", "FullyConnected"},
                                npus_count : {2}]] :
          topology = [kind |-> "MultiDim", dims |-> dims,
                      npus_count |->
                          MultiDim_npus_count(npus_count_per_dim(dims))]
    /\ InitSim({})
    /\ bandwidth = MaxBandwidth
    /\ latency = MaxLatency
    /\ random_queue_enabled = FALSE
    /\ workload = NoWorkload
    /\ routed = [called |-> FALSE, calls |-> 0]

NextMultiDimBusy == MultiDimRouteCall \/ SendRouted \/ Proceed

SpecMultiDimBusy == InitMultiDimBusy /\ [][NextMultiDimBusy]_vars

SpecMultiDim == InitMultiDim /\ [][NextMultiDim]_vars

(***************************************************************************)
(* ExpanderGraph::ExpanderGraph, full graph: connect(node_id, neighbor_id) *)
(* for every neighbour with a larger id, in the order of the input file.   *)
(***************************************************************************)
ExpanderNpus == 4

ExpanderNodes == 0 .. (ExpanderNpus - 1)

Range(f) == {f[i] : i \in DOMAIN f}

ExpanderGraph_connect(adj, src, dest) ==
    IF src = dest \/ dest \in Range(adj[src]) THEN adj
    ELSE [adj EXCEPT ![src] = Append(@, dest), ![dest] = Append(@, src)]

RECURSIVE connect_neighbors(_, _, _, _)
connect_neighbors(adj, node_id, neighbors, i) ==
    IF i > Len(neighbors) THEN adj
    ELSE connect_neighbors(
            IF node_id < neighbors[i]
            THEN ExpanderGraph_connect(adj, node_id, neighbors[i]) ELSE adj,
            node_id, neighbors, i + 1)

RECURSIVE connect_nodes(_, _, _)
connect_nodes(adj, adjacency, node_id) ==
    IF node_id >= ExpanderNpus THEN adj
    ELSE connect_nodes(connect_neighbors(adj, node_id, adjacency[node_id], 1),
                       adjacency, node_id + 1)

ExpanderGraph_adjacency_list(adjacency) ==
    connect_nodes([n \in ExpanderNodes |-> <<>>], adjacency, 0)

ExpanderGraph_links(adj) ==
    UNION {Topology_connect(a, b) : <<a, b>> \in
              {e \in ExpanderNodes \X ExpanderNodes : e[2] \in Range(adj[e[1]])}}

\* the input file's connected_graph_adjacency: the neighbours of every node
\* of an undirected graph, in increasing order
RECURSIVE SortedSeq(_)
SortedSeq(S) ==
    IF S = {} THEN <<>>
    ELSE LET m == CHOOSE x \in S : \A y \in S : x <= y
         IN  <<m>> \o SortedSeq(S \ {m})

RECURSIVE Reachable(_, _)
Reachable(edges, seen) ==
    LET more == {n \in ExpanderNodes :
                    \E m \in seen : {n, m} \in edges} \ seen
    IN  IF more = {} THEN seen ELSE Reachable(edges, seen \cup more)

ConnectedGraphs ==
    {edges \in SUBSET {{a, b} : <<a, b>> \in
                          {e \in ExpanderNodes \X ExpanderNodes : e[1] < e[2]}} :
        Reachable(edges, {0}) = ExpanderNodes}

connected_graph_adjacency(edges) ==
    [n \in ExpanderNodes |->
        SortedSeq({m \in ExpanderNodes : m # n /\ {n, m} \in edges})]

(***************************************************************************)
(* ExpanderGraph::get_distance: Dijkstra with unit weights.  Unreached     *)
(* stands for UINT32_MAX; pq holds the pairs <<distance, node>>.           *)
(***************************************************************************)
Unreached == -1

RECURSIVE dijkstra(_, _, _, _)
dijkstra(adj, dest, dist, pq) ==
    IF pq = {} THEN dist[dest]
    ELSE LET top == CHOOSE e \in pq : \A f \in pq :
                        e[1] < f[1] \/ (e[1] = f[1] /\ e[2] <= f[2])
             d == top[1]
             u == top[2]
             new_dist == dist[u] + 1
             closer == {n \in Range(adj[u]) :
                           dist[n] = Unreached \/ new_dist < dist[n]}
         IN  IF u = dest THEN d
             ELSE IF d > dist[u] THEN dijkstra(adj, dest, dist, pq \ {top})
             ELSE dijkstra(adj, dest,
                           [n \in DOMAIN dist |->
                               IF n \in closer THEN new_dist ELSE dist[n]],
                           (pq \ {top}) \cup {<<new_dist, n>> : n \in closer})

\* the value returned and the topology with its distance cache
ExpanderGraph_get_distance(topo, src, dest) ==
    IF <<src, dest>> \in DOMAIN topo.distance_cache
    THEN [value |-> topo.distance_cache[<<src, dest>>], topo |-> topo]
    ELSE IF src = dest THEN [value |-> 0, topo |-> topo]
    ELSE LET d == dijkstra(topo.adjacency_list, dest,
                           [n \in ExpanderNodes |->
                               IF n = src THEN 0 ELSE Unreached],
                           {<<0, src>>})
         IN  [value |-> d,
              topo |-> [topo EXCEPT !.distance_cache =
                                        @ @@ (<<src, dest>> :> d)]]

(***************************************************************************)
(* ExpanderGraph::route_shortest_path                                      *)
(***************************************************************************)
NoParent == -1

RECURSIVE path_back(_, _, _)
path_back(parent, start, current) ==
    IF current = start THEN <<start>>
    ELSE Append(path_back(parent, start, parent[current]), current)

PrefixUpTo(seq, x) ==
    SubSeq(seq, 1, CHOOSE i \in 1 .. Len(seq) : seq[i] = x)

\* the BFS loop: it stops as soon as dest is discovered
RECURSIVE shortest_bfs(_, _, _, _)
shortest_bfs(adj, dest, parent, queue) ==
    IF queue = <<>> THEN [found |-> FALSE, parent |-> parent]
    ELSE LET current == Head(queue)
             NotVisited(nb) == parent[nb] = NoParent
             unvisited == SelectSeq(adj[current], NotVisited)
             found == dest \in Range(unvisited)
             visited_now == IF found THEN PrefixUpTo(unvisited, dest)
                            ELSE unvisited
             new_parent == [n \in DOMAIN parent |->
                               IF n \in Range(visited_now) THEN current
                               ELSE parent[n]]
         IN  IF found THEN [found |-> TRUE, parent |-> new_parent]
             ELSE shortest_bfs(adj, dest, new_parent,
                               Tail(queue) \o visited_now)

route_shortest_path_Reversed(topo, src, dest) ==
    IF <<src, dest>> \in DOMAIN topo.shortest_route_cache
    THEN [route |-> topo.shortest_route_cache[<<src, dest>>], topo |-> topo]
    ELSE LET bfs == shortest_bfs([n \in DOMAIN topo.adjacency_list |->
                                     [i \in 1 .. Len(topo.adjacency_list[n]) |->
                                         topo.adjacency_list[n][
                                             Len(topo.adjacency_list[n]) + 1 - i]]],
                                 dest,
                                 [n \in ExpanderNodes |->
                                     IF n = src THEN src ELSE NoParent],
                                 <<src>>)
             route == IF bfs.found THEN path_back(bfs.parent, src, dest)
                      ELSE <<>>
         IN  [route |-> route,
              topo |-> [topo EXCEPT !.shortest_route_cache =
                                        @ @@ (<<src, dest>> :> route)]]

route_shortest_path(topo, src, dest) ==
    IF <<src, dest>> \in DOMAIN topo.shortest_route_cache
    THEN [route |-> topo.shortest_route_cache[<<src, dest>>], topo |-> topo]
    ELSE LET bfs == shortest_bfs(topo.adjacency_list, dest,
                                 [n \in ExpanderNodes |->
                                     IF n = src THEN src ELSE NoParent],
                                 <<src>>)
             route == IF bfs.found THEN path_back(bfs.parent, src, dest)
                      ELSE <<>>
         IN  [route |-> route,
              topo |-> [topo EXCEPT !.shortest_route_cache =
                                        @ @@ (<<src, dest>> :> route)]]

(***************************************************************************)
(* ExpanderGraph::route_random_topk                                        *)
(***************************************************************************)
k_max_paths == 16

normalize_edge(a, b) == {a, b}

RECURSIVE bfs_loop(_, _, _, _, _, _)
bfs_loop(adj, goal, banned_nodes, banned_edges, parent, q) ==
    IF q = <<>> \/ Head(q) = goal THEN parent
    ELSE LET current == Head(q)
             Fresh(nb) == /\ nb \notin banned_nodes
                          /\ normalize_edge(current, nb) \notin banned_edges
                          /\ parent[nb] = NoParent
             fresh == SelectSeq(adj[current], Fresh)
         IN  bfs_loop(adj, goal, banned_nodes, banned_edges,
                      [n \in DOMAIN parent |->
                          IF n \in Range(fresh) THEN current ELSE parent[n]],
                      Tail(q) \o fresh)

bfs_path(adj, start, goal, banned_nodes, banned_edges) ==
    IF start \in banned_nodes THEN <<>>
    ELSE LET parent == bfs_loop(adj, goal, banned_nodes, banned_edges,
                                [n \in ExpanderNodes |->
                                    IF n = start THEN start ELSE NoParent],
                                <<start>>)
         IN  IF parent[goal] = NoParent THEN <<>>
             ELSE path_back(parent, start, goal)

IsPrefix(root_path, p) ==
    Len(p) >= Len(root_path) /\ SubSeq(p, 1, Len(root_path)) = root_path

\* the loop over the spur nodes prev_path[i] (i counts from 1 here)
RECURSIVE spur_loop(_, _, _, _, _, _)
spur_loop(adj, goal, shortest_paths, candidates, prev_path, i) ==
    IF i + 1 > Len(prev_path) THEN candidates
    ELSE LET spur_node == prev_path[i]
             root_path == SubSeq(prev_path, 1, i)
             banned_nodes == {root_path[j] : j \in 1 .. (i - 1)}
             banned_edges ==
                {normalize_edge(shortest_paths[n][i], shortest_paths[n][i + 1]) :
                    n \in {m \in 1 .. Len(shortest_paths) :
                              /\ Len(shortest_paths[m]) > i - 1
                              /\ IsPrefix(root_path, shortest_paths[m])}}
             spur_path == bfs_path(adj, spur_node, goal, banned_nodes,
                                   banned_edges)
             total_path == root_path \o Tail(spur_path)
             duplicate == \/ total_path \in Range(shortest_paths)
                          \/ total_path \in Range(candidates)
         IN  spur_loop(adj, goal, shortest_paths,
                       IF spur_path = <<>> \/ duplicate THEN candidates
                       ELSE Append(candidates, total_path),
                       prev_path, i + 1)

\* std::min_element: the first candidate of the smallest size
BestIndex(candidates) ==
    CHOOSE b \in 1 .. Len(candidates) :
        /\ \A j \in 1 .. Len(candidates) :
              Len(candidates[b]) <= Len(candidates[j])
        /\ \A j \in 1 .. (b - 1) : Len(candidates[j]) > Len(candidates[b])

RECURSIVE k_loop(_, _, _, _, _, _)
k_loop(adj, goal, shortest_paths, candidates, k, k_max) ==
    IF k >= k_max THEN shortest_paths
    ELSE LET found == spur_loop(adj, goal, shortest_paths, candidates,
                                shortest_paths[k], 1)
         IN  IF found = <<>> THEN shortest_paths
             ELSE k_loop(adj, goal,
                         Append(shortest_paths, found[BestIndex(found)]),
                         RemoveAt(found, BestIndex(found)), k + 1, k_max)

k_shortest_paths(adj, start, goal, k_max) ==
    LET first == bfs_path(adj, start, goal, {}, {})
    IN  IF first = <<>> THEN <<>>
        ELSE k_loop(adj, goal, <<first>>, <<>>, 1, k_max)

\* the routes the random pick can return, each with the topology after the
\* call; no path: the program exits
route_random_topk_AnyPath(topo, src, dest) ==
    LET cached == <<src, dest>> \in DOMAIN topo.topk_route_cache
        paths == IF cached THEN topo.topk_route_cache[<<src, dest>>]
                 ELSE k_shortest_paths(topo.adjacency_list, src, dest,
                                       k_max_paths)
        after == IF cached THEN topo
                 ELSE [topo EXCEPT !.topk_route_cache =
                                       @ @@ (<<src, dest>> :> paths)]
    IN  {[route |-> paths[pick + 1], topo |-> after] :
            pick \in 0 .. Len(paths) - 1}

route_random_topk(topo, src, dest) ==
    LET cached == <<src, dest>> \in DOMAIN topo.topk_route_cache
        paths == IF cached THEN topo.topk_route_cache[<<src, dest>>]
                 ELSE k_shortest_paths(topo.adjacency_list, src, dest,
                                       k_max_paths)
        start_index == IF Len(paths) > 4 THEN 4 ELSE 0
        end_index == Len(paths) - 1
        after == IF cached THEN topo
                 ELSE [topo EXCEPT !.topk_route_cache =
                                       @ @@ (<<src, dest>> :> paths)]
    IN  {[route |-> paths[pick + 1], topo |-> after] :
            pick \in start_index .. end_index}

ExpanderGraph_route(topo, src, dest) ==
    IF topo.routing_algorithm = "RandomTopK"
    THEN route_random_topk(topo, src, dest)
    ELSE {route_shortest_path(topo, src, dest)}

ExpanderGraph_compute_hops_count(topo, src, dest) ==
    {ExpanderGraph_get_distance(topo, src, dest)}

(***************************************************************************)
(* SwitchOrExpander: the switch and the expander over the same NPUs, and   *)
(* the per-device flag use_moe_routing.                                    *)
(***************************************************************************)
SwitchOrExpander_route_Sticky(topo, src, dest) ==
    IF \/ topo.use_moe_routing[src]
       \/ <<src, dest>> \in DOMAIN topo.shortest_route_cache
                               \cup DOMAIN topo.topk_route_cache
    THEN ExpanderGraph_route(topo, src, dest)
    ELSE {[route |-> Switch_route(ExpanderNpus, src, dest), topo |-> topo]}

SwitchOrExpander_route(topo, src, dest) ==
    IF topo.use_moe_routing[src]
    THEN ExpanderGraph_route(topo, src, dest)
    ELSE {[route |-> Switch_route(ExpanderNpus, src, dest), topo |-> topo]}

SwitchOrExpander_compute_hops_count(topo, src, dest) ==
    IF topo.use_moe_routing[src]
    THEN {[value |-> Len(r.route) - 1, topo |-> r.topo] :
             r \in ExpanderGraph_route(topo, src, dest)}
    ELSE {[value |-> Len(Switch_route(ExpanderNpus, src, dest)) - 1,
           topo |-> topo]}

Topology_route(topo, src, dest) ==
    IF topo.kind = "SwitchOrExpander"
    THEN SwitchOrExpander_route(topo, src, dest)
    ELSE ExpanderGraph_route(topo, src, dest)

Topology_compute_hops_count(topo, src, dest) ==
    IF topo.kind = "SwitchOrExpander"
    THEN SwitchOrExpander_compute_hops_count(topo, src, dest)
    ELSE ExpanderGraph_compute_hops_count(topo, src, dest)

NotAsked == -1

\* route(src, dest); a run asks for one route
ExpanderRoute ==
    /\ failed = ""
    /\ topology.kind \in {"ExpanderGraph", "SwitchOrExpander"}
    /\ ~routed.called
    /\ \E src, dest \in ExpanderNodes :
       \E r \in Topology_route(topology, src, dest) :
          /\ routed' = [called |-> TRUE, src |-> src, dest |-> dest,
                        route |-> r.route, hops |-> NotAsked]
          /\ topology' = r.topo
    /\ UNCHANGED simVars

\* compute_hops_count for the pair of the route; it asserts src != dest
ExpanderHops ==
    /\ failed = ""
    /\ topology.kind \in {"ExpanderGraph", "SwitchOrExpander"}
    /\ routed.called
    /\ routed.hops = NotAsked
    /\ routed.src # routed.dest
    /\ chunks = <<>>
    /\ \E h \in Topology_compute_hops_count(topology, routed.src, routed.dest) :
          /\ routed' = [routed EXCEPT !.hops = h.value]
          /\ topology' = h.topo
    /\ UNCHANGED simVars

InitExpander ==
    /\ \E edges \in ConnectedGraphs :
          LET adj == ExpanderGraph_adjacency_list(
                         connected_graph_adjacency(edges))
          IN  \E kind \in {"ExpanderGraph", "SwitchOrExpander"},
                 moe \in BOOLEAN :
                 /\ kind = "ExpanderGraph" => moe
                 /\ topology \in
                       [kind : {kind}, npus_count : {ExpanderNpus},
                        adjacency_list : {adj},
                        routing_algorithm : {"ShortestPath", "RandomTopK"},
                        use_moe_routing : {[n \in ExpanderNodes |-> moe]},
                        shortest_route_cache : {<<>>},
                        topk_route_cache : {<<>>},
                        distance_cache : {<<>>}]
                 /\ InitSim(IF kind = "SwitchOrExpander"
                            THEN ExpanderGraph_links(adj)
                                     \cup Switch_links(ExpanderNpus)
                            ELSE ExpanderGraph_links(adj))
    /\ bandwidth = MaxBandwidth
    /\ latency = MaxLatency
    /\ random_queue_enabled = FALSE
    /\ workload = NoWorkload
    /\ routed = NoRoute

NextExpander == ExpanderRoute \/ ExpanderHops \/ SendRouted \/ Proceed

SpecExpander == InitExpander /\ [][NextExpander]_vars

(***************************************************************************)
(* The congestion-unaware model: BasicTopology::send computes the delay    *)
(* of a chunk from the hop count alone.  The topology holds no state.      *)
(***************************************************************************)
UnawareKinds == {"Ring", "FullyConnected", "Switch"}

UnawareSizes == {1, 50, 4096, TestChunkSize}

Min(a, b) == IF a <= b THEN a ELSE b

Abs(a) == IF a < 0 THEN 0 - a ELSE a

Unaware_compute_hops_count(topo, src, dest) ==
    CASE topo.kind = "Ring" ->
            Min(Abs(src - dest), topo.npus_count - Abs(src - dest))
      [] topo.kind = "FullyConnected" -> 1
      [] topo.kind = "Switch" -> 2

\* link_delay + serialization_delay, truncated to EventTime
compute_communication_delay(hops_count, chunk_size) ==
    (hops_count * latency * bandwidth_Bpns + chunk_size) \div bandwidth_Bpns

Unaware_send(topo, src, dest, chunk_size) ==
    IF src = dest THEN 0
    ELSE compute_communication_delay(
             Unaware_compute_hops_count(topo, src, dest), chunk_size)

UnawareSend ==
    /\ topology.kind \in UnawareKinds
    /\ topology.unaware
    /\ \E src, dest \in 0 .. (topology.npus_count - 1), size \in UnawareSizes :
          routed' = [called |-> TRUE, src |-> src, dest |-> dest,
                     size |-> size,
                     hops |-> IF src = dest THEN 0
                              ELSE Unaware_compute_hops_count(topology,
                                                              src, dest),
                     delay |-> Unaware_send(topology, src, dest, size)]
    /\ UNCHANGED <<simVars, topology>>

InitUnaware ==
    /\ topology \in [kind : UnawareKinds, npus_count : {TestNpus},
                     unaware : {TRUE}]
    /\ InitSim({})
    /\ bandwidth \in {1, MaxBandwidth, TestBandwidth}
    /\ latency \in {0, MaxLatency, TestLatency}
    /\ random_queue_enabled = FALSE
    /\ workload = NoWorkload
    /\ routed = NoRoute

NextUnaware == UnawareSend

SpecUnaware == InitUnaware /\ [][NextUnaware]_vars

(***************************************************************************)
(* SwitchOrExpander under changes of the per-device flags.  The flags are  *)
(* a global map that the user of the topology writes between calls.  The   *)
(* assert statements of route, compute_hops_count and get_distance are not *)
(* well-formed C++ (operator[] on the shared_ptr, a `;` inside the         *)
(* argument), so the file builds only with NDEBUG, where they expand to    *)
(* nothing: the calls go by the flag of src alone.                         *)
(***************************************************************************)
SwitchOrExpander_get_distance(topo, src, dest) ==
    IF src = dest THEN [value |-> 0, topo |-> topo]
    ELSE IF topo.use_moe_routing[src]
    THEN ExpanderGraph_get_distance(topo, src, dest)
    ELSE [value |-> Len(Switch_route(ExpanderNpus, src, dest)) - 1,
          topo |-> topo]

\* (*use_moe_routing)[device_id] = flag
SetMoeRouting ==
    /\ topology.kind = "SwitchOrExpander"
    /\ routed.calls < MaxRouteCalls
    /\ \E device_id \in ExpanderNodes, flag \in BOOLEAN :
          topology' = [topology EXCEPT !.use_moe_routing[device_id] = flag]
    /\ UNCHANGED <<simVars, routed>>

CallRecord(op, src, dest) ==
    [called |-> TRUE, calls |-> routed.calls + 1, op |-> op,
     src |-> src, dest |-> dest,
     src_moe |-> topology.use_moe_routing[src],
     dest_moe |-> topology.use_moe_routing[dest],
     cached |-> <<src, dest>> \in DOMAIN topology.shortest_route_cache
                                    \cup DOMAIN topology.topk_route_cache,
     route |-> <<>>, value |-> NotAsked, returned |-> TRUE]

SwitchOrExpanderRoute ==
    /\ topology.kind = "SwitchOrExpander"
    /\ routed.calls < MaxRouteCalls
    /\ \E src, dest \in ExpanderNodes :
       \E r \in SwitchOrExpander_route(topology, src, dest) :
          /\ routed' = [CallRecord("route", src, dest) EXCEPT
                           !.route = r.route]
          /\ topology' = r.topo
    /\ UNCHANGED simVars

SwitchOrExpanderHops ==
    /\ topology.kind = "SwitchOrExpander"
    /\ routed.calls < MaxRouteCalls
    /\ \E src, dest \in ExpanderNodes :
          /\ src # dest
          /\ \E h \in SwitchOrExpander_compute_hops_count(topology, src, dest) :
                /\ routed' = [CallRecord("compute_hops_count", src, dest)
                                 EXCEPT !.value = h.value]
                /\ topology' = h.topo
    /\ UNCHANGED simVars

SwitchOrExpanderDistance ==
    /\ topology.kind = "SwitchOrExpander"
    /\ routed.calls < MaxRouteCalls
    /\ \E src, dest \in ExpanderNodes :
          LET d == SwitchOrExpander_get_distance(topology, src, dest)
          IN  /\ routed' = [CallRecord("get_distance", src, dest)
                               EXCEPT !.value = d.value]
              /\ topology' = d.topo
    /\ UNCHANGED simVars

\* the graphs of the flag runs: every node has at least MinDegree neighbours
MinDegree == 2

SwitchOrExpanderGraphs ==
    {edges \in ConnectedGraphs :
        \A n \in ExpanderNodes :
            Cardinality({e \in edges : n \in e}) >= MinDegree}

\* SwitchOrExpander::SwitchOrExpander with an input file: every flag false
InitSwitchOrExpander ==
    /\ \E edges \in SwitchOrExpanderGraphs :
          LET adj == ExpanderGraph_adjacency_list(
                         connected_graph_adjacency(edges))
          IN  /\ topology \in
                    [kind : {"SwitchOrExpander"}, npus_count : {ExpanderNpus},
                     adjacency_list : {adj},
                     routing_algorithm : {"ShortestPath", "RandomTopK"},
                     use_moe_routing : {[n \in ExpanderNodes |-> FALSE]},
                     shortest_route_cache : {<<>>},
                     topk_route_cache : {<<>>},
                     distance_cache : {<<>>}]
              /\ InitSim(ExpanderGraph_links(adj)
                             \cup Switch_links(ExpanderNpus))
    /\ bandwidth = MaxBandwidth
    /\ latency = MaxLatency
    /\ random_queue_enabled = FALSE
    /\ workload = NoWorkload
    /\ routed = [called |-> FALSE, calls |-> 0]

NextSwitchOrExpander ==
    \/ SetMoeRouting
    \/ SwitchOrExpanderRoute
    \/ SwitchOrExpanderHops
    \/ SwitchOrExpanderDistance

SpecSwitchOrExpander == InitSwitchOrExpander /\ [][NextSwitchOrExpander]_vars

(***************************************************************************)
(* Address translation of MultiDimTopology on its own: the shapes are the  *)
(* values of npus_count_per_dim, and a call translates one NPU id and      *)
(* converts the address back as route() does.                              *)
(***************************************************************************)
MaxAddressDims == 3
MaxAddressNpus == 4

AddressShapes ==
    UNION {[1 .. n -> 1 .. MaxAddressNpus] : n \in 1 .. MaxAddressDims}

TranslateAddress ==
    /\ topology.kind = "MultiDimAddress"
    /\ \E npu_id \in 0 .. (topology.npus_count - 1) :
          LET address == translate_address(topology.npus_count_per_dim, npu_id)
          IN  routed' = [called |-> TRUE, npu_id |-> npu_id,
                         address |-> address,
                         in_range |-> address_in_range(
                                          topology.npus_count_per_dim, address),
                         global_id |-> address_to_global(
                                           topology.npus_count_per_dim, address)]
    /\ UNCHANGED <<simVars, topology>>

InitAddress ==
    /\ \E npd \in AddressShapes :
          topology = [kind |-> "MultiDimAddress", npus_count_per_dim |-> npd,
                      npus_count |-> MultiDim_npus_count(npd)]
    /\ InitSim({})
    /\ bandwidth = MaxBandwidth
    /\ latency = MaxLatency
    /\ random_queue_enabled = FALSE
    /\ workload = NoWorkload
    /\ routed = NoRoute

NextAddress == TranslateAddress

SpecAddress == InitAddress /\ [][NextAddress]_vars

(***************************************************************************)
(* ExpanderGraph::ExpanderGraph in full-graph mode, from the file: an edge *)
(* of connected_graph_adjacency may be listed at both endpoints, at the    *)
(* lower one only, or at the higher one only.                              *)
(***************************************************************************)
NodePairs == {e \in ExpanderNodes \X ExpanderNodes : e[1] < e[2]}

Listings == {"none", "both", "low", "high"}

file_adjacency(listing) ==
    [n \in ExpanderNodes |->
        SortedSeq({m \in ExpanderNodes :
                      \/ n < m /\ listing[<<n, m>>] \in {"both", "low"}
                      \/ m < n /\ listing[<<m, n>>] \in {"both", "high"}})]

ExpanderGraphConstruct ==
    /\ topology.kind = "ExpanderFile"
    /\ ~topology.constructed
    /\ LET adj == ExpanderGraph_adjacency_list(
                      topology.connected_graph_adjacency)
           ls == ExpanderGraph_links(adj)
       IN  /\ topology' = [topology EXCEPT !.constructed = TRUE,
                                           !.adjacency_list = adj]
           /\ links' = ls
           /\ busy' = WithNewLinks(busy, ls, FALSE)
           /\ pending_chunks' = WithNewLinks(pending_chunks, ls, <<>>)
           /\ sendLog' = WithNewLinks(sendLog, ls, <<>>)
           /\ arriveLog' = WithNewLinks(arriveLog, ls, <<>>)
    /\ UNCHANGED <<current_time, event_queue, bandwidth, latency,
                   random_queue_enabled, chunks, failed, lastSend, workload,
                   routed>>

InitExpanderFile ==
    /\ \E listing \in [NodePairs -> Listings] :
          topology = [kind |-> "ExpanderFile", npus_count |-> ExpanderNpus,
                      connected_graph_adjacency |-> file_adjacency(listing),
                      constructed |-> FALSE,
                      adjacency_list |-> [n \in ExpanderNodes |-> <<>>]]
    /\ InitSim({})
    /\ bandwidth = MaxBandwidth
    /\ latency = MaxLatency
    /\ random_queue_enabled = FALSE
    /\ workload = NoWorkload
    /\ routed = NoRoute

NextExpanderFile == ExpanderGraphConstruct

SpecExpanderFile == InitExpanderFile /\ [][NextExpanderFile]_vars

(***************************************************************************)
(* Memoization.  The SwitchOrExpander that keeps its own adjacency_list    *)
(* and route_cache (the first of the three versions of the file), with the *)
(* global bool use_moe_routing fixed, and the ExpanderGraph under          *)
(* ShortestPath: any two calls of route, compute_hops_count and            *)
(* get_distance, the second one finding what the first one cached.         *)
(***************************************************************************)
\* SwitchOrExpander::route with route_cache: [route, topo]
SwitchOrExpander_route_cached(topo, src, dest) ==
    IF topo.use_moe_routing /\ DOMAIN topo.adjacency_list # {}
    THEN IF <<src, dest>> \in DOMAIN topo.route_cache
         THEN [route |-> topo.route_cache[<<src, dest>>], topo |-> topo]
         ELSE LET bfs == shortest_bfs(topo.adjacency_list, dest,
                                      [n \in ExpanderNodes |->
                                          IF n = src THEN src ELSE NoParent],
                                      <<src>>)
              IN  IF bfs.found
                  THEN LET path == path_back(bfs.parent, src, dest)
                       IN  [route |-> path,
                            topo |-> [topo EXCEPT !.route_cache =
                                         @ @@ (<<src, dest>> :> path)]]
                  ELSE [route |-> <<>>, topo |-> topo]
    ELSE [route |-> <<src, ExpanderNpus, dest>>, topo |-> topo]

\* SwitchOrExpander::get_distance beside route_cache
SwitchOrExpander_get_distance_cached(topo, src, dest) ==
    IF topo.use_moe_routing
    THEN IF <<src, dest>> \in DOMAIN topo.route_cache
         THEN Len(topo.route_cache[<<src, dest>>])
         ELSE IF src = dest THEN 0
         ELSE dijkstra(topo.adjacency_list, dest,
                       [n \in ExpanderNodes |->
                           IF n = src THEN 0 ELSE Unreached],
                       {<<0, src>>})
    ELSE IF src = dest THEN 0 ELSE 2

MemoOps == {"route", "compute_hops_count", "get_distance"}

\* the answer of one call: [route, value, topo]
Answer(topo, op, src, dest) ==
    IF topo.kind = "SwitchOrExpanderRouteCache"
    THEN IF op = "route"
         THEN LET r == SwitchOrExpander_route_cached(topo, src, dest)
              IN  [route |-> r.route, value |-> NotAsked, topo |-> r.topo]
         ELSE [route |-> <<>>,
               value |-> SwitchOrExpander_get_distance_cached(topo, src, dest),
               topo |-> topo]
    ELSE IF op = "route"
         THEN LET r == route_shortest_path(topo, src, dest)
              IN  [route |-> r.route, value |-> NotAsked, topo |-> r.topo]
         ELSE LET d == ExpanderGraph_get_distance(topo, src, dest)
              IN  [route |-> <<>>, value |-> d.value, topo |-> d.topo]

\* the topology as constructed: nothing cached
Fresh(topo) ==
    IF topo.kind = "SwitchOrExpanderRouteCache"
    THEN [topo EXCEPT !.route_cache = <<>>]
    ELSE [topo EXCEPT !.shortest_route_cache = <<>>,
                      !.distance_cache = <<>>]

MemoCall ==
    /\ topology.kind \in {"SwitchOrExpanderRouteCache", "ExpanderGraphMemo"}
    /\ routed.calls < MaxRouteCalls
    /\ \E op \in MemoOps, src, dest \in ExpanderNodes :
          /\ op = "compute_hops_count" => src # dest
          /\ LET a == Answer(topology, op, src, dest)
             IN  /\ routed' = [called |-> TRUE, calls |-> routed.calls + 1,
                               op |-> op, src |-> src, dest |-> dest,
                               route |-> a.route, value |-> a.value,
                               cached_before |->
                                   topology # Fresh(topology)]
                 /\ topology' = a.topo
    /\ UNCHANGED simVars

InitMemo ==
    /\ \E edges \in ConnectedGraphs :
          LET adj == ExpanderGraph_adjacency_list(
                         connected_graph_adjacency(edges))
          IN  /\ \/ topology \in
                       [kind : {"SwitchOrExpanderRouteCache"},
                        npus_count : {ExpanderNpus},
                        adjacency_list : {adj},
                        use_moe_routing : BOOLEAN,
                        route_cache : {<<>>}]
                 \/ topology =
                       [kind |-> "ExpanderGraphMemo",
                        npus_count |-> ExpanderNpus,
                        adjacency_list |-> adj,
                        routing_algorithm |-> "ShortestPath",
                        shortest_route_cache |-> <<>>,
                        topk_route_cache |-> <<>>,
                        distance_cache |-> <<>>]
              /\ InitSim(ExpanderGraph_links(adj))
    /\ bandwidth = MaxBandwidth
    /\ latency = MaxLatency
    /\ random_queue_enabled = FALSE
    /\ workload = NoWorkload
    /\ routed = [called |-> FALSE, calls |-> 0]

NextMemo == MemoCall

SpecMemo == InitMemo /\ [][NextMemo]_vars

(***************************************************************************)
(* EpExpanderTopology: the routes of the expander are read from a routes   *)
(* file; a route is drawn by weight, and every layer has a permutation of  *)
(* the ranks, shuffled by a generator seeded with the layer.               *)
(***************************************************************************)
EpNodeCount == 3

EpNodes == 2

MaxLayer == 1

MaxRouteOptions == 3

\* a weight w stands for w / WeightScale and a draw r for r / WeightScale
WeightScale == 2

EpWeights == {0, 1}

EpLayers == 0 .. MaxLayer

EpDevices == 0 .. EpNodeCount - 1

EpPairs == {pair \in EpDevices \X EpDevices : pair[1] # pair[2]}

EpInstances == {"original", "clone"}

NoInstance == [constructed |-> FALSE]

RankPermutations(n) ==
    {p \in [1 .. n -> 0 .. n - 1] : \A i, j \in 1 .. n : i # j => p[i] # p[j]}

\* std::shuffle of iota(ep_node_count) by std::mt19937(seed): some
\* permutation that depends on the seed alone
ShuffleTables == [EpLayers -> RankPermutations(EpNodes)]

EpPath(src, dest, i) ==
    IF i = 2 THEN <<src, CHOOSE o \in EpDevices : o # src /\ o # dest, dest>>
    ELSE <<src, dest>>

\* the routes files: every pair lists the same number of routes with the
\* same weights, the direct path first, then the path over the third node
RouteFiles ==
    {[metadata |-> [node_count |-> EpNodeCount, ep_nodes |-> EpNodes],
      routes |-> [pair \in EpPairs |->
                     [i \in 1 .. Len(w) |->
                         [path |-> EpPath(pair[1], pair[2], i),
                          hops |-> Len(EpPath(pair[1], pair[2], i)) - 1,
                          weight |-> w[i]]]]] :
        w \in UNION {[1 .. n -> EpWeights] : n \in 0 .. MaxRouteOptions}}

\* load_routes: two devices are adjacent when some listed path steps from
\* one to the other
EpExpander_adjacent(file) ==
    {e \in EpDevices \X EpDevices :
        \E pair \in DOMAIN file.routes :
            \E k \in 1 .. Len(file.routes[pair]) :
                LET path == file.routes[pair][k].path
                IN  \E i \in 1 .. Len(path) - 1 :
                        {path[i], path[i + 1]} = {e[1], e[2]}}

EpExpander_links(file) ==
    UNION {Topology_connect(e[1], e[2]) :
              e \in {x \in EpExpander_adjacent(file) : x[1] < x[2]}}

EpExpanderTopology(file) ==
    [constructed |-> TRUE,
     node_count |-> file.metadata.node_count,
     ep_node_count |-> file.metadata.ep_nodes,
     routes |-> file.routes,
     num_permutation_layers |-> 0,
     layer_permutations |-> <<>>]

RECURSIVE cumulative(_, _)
cumulative(route_options, i) ==
    IF i = 0 THEN 0
    ELSE cumulative(route_options, i - 1) + route_options[i].weight

\* the index, from 1, of the entry that select_route returns
RECURSIVE select_walk(_, _, _)
select_walk(route_options, r, i) ==
    IF i > Len(route_options) THEN Len(route_options)
    ELSE IF r < cumulative(route_options, i) THEN i
    ELSE select_walk(route_options, r, i + 1)

select_route_Inclusive(t, src, dest, r) ==
    LET route_options == t.routes[<<src, dest>>]
        hits == {i \in 1 .. Len(route_options) :
                    r <= cumulative(route_options, i)}
    IN  IF Len(route_options) = 1 THEN 1
        ELSE IF hits = {} THEN Len(route_options)
        ELSE CHOOSE i \in hits : \A j \in hits : i <= j

select_route(t, src, dest, r) ==
    LET route_options == t.routes[<<src, dest>>]
    IN  IF Len(route_options) = 1 THEN 1
        ELSE select_walk(route_options, r, 1)

EpExpander_route(t, src, dest, r) ==
    IF src = dest
        THEN [route |-> <<src>>, index |-> 0, aborted |-> FALSE]
    ELSE IF \/ <<src, dest>> \notin DOMAIN t.routes
            \/ Len(t.routes[<<src, dest>>]) = 0
        THEN [route |-> <<>>, index |-> 0, aborted |-> TRUE]
    ELSE LET selected == select_route(t, src, dest, r)
         IN  [route |-> t.routes[<<src, dest>>][selected].path,
              index |-> selected, aborted |-> FALSE]

get_permutation_NoMod(t, shuffle, layer_id) ==
    LET effective_layer_id == layer_id
    IN  IF effective_layer_id \in DOMAIN t.layer_permutations
            THEN [perm |-> t.layer_permutations[effective_layer_id], topo |-> t]
        ELSE [perm |-> shuffle[effective_layer_id],
              topo |-> [t EXCEPT !.layer_permutations =
                            @ @@ (effective_layer_id :>
                                      shuffle[effective_layer_id])]]

get_permutation(t, shuffle, layer_id) ==
    LET effective_layer_id ==
            IF t.num_permutation_layers > 0
                THEN layer_id % t.num_permutation_layers
            ELSE layer_id
    IN  IF effective_layer_id \in DOMAIN t.layer_permutations
            THEN [perm |-> t.layer_permutations[effective_layer_id], topo |-> t]
        ELSE [perm |-> shuffle[effective_layer_id],
              topo |-> [t EXCEPT !.layer_permutations =
                            @ @@ (effective_layer_id :>
                                      shuffle[effective_layer_id])]]

set_num_permutation_layers(t, num_layers) ==
    [t EXCEPT !.num_permutation_layers = num_layers,
              !.layer_permutations = <<>>]

EpExpander_clone(file) == EpExpanderTopology(file)

NoEpCall == [called |-> FALSE, op |-> "", on |-> "", src |-> 0, dest |-> 0,
             layer |-> 0, r |-> 0, index |-> 0, route |-> <<>>,
             perm |-> <<>>, aborted |-> FALSE]

EpRoute ==
    /\ topology.kind = "EpExpander"
    /\ ~routed.aborted
    /\ \E on \in EpInstances, src, dest \in EpDevices,
          r \in 0 .. WeightScale - 1 :
          /\ topology[on].constructed
          /\ LET a == EpExpander_route(topology[on], src, dest, r)
             IN  routed' = [NoEpCall EXCEPT !.called = TRUE, !.op = "route",
                                            !.on = on, !.src = src,
                                            !.dest = dest, !.r = r,
                                            !.index = a.index,
                                            !.route = a.route,
                                            !.aborted = a.aborted]
    /\ UNCHANGED <<topology, simVars>>

EpGetPermutation ==
    /\ topology.kind = "EpExpander"
    /\ ~routed.aborted
    /\ \E on \in EpInstances, layer_id \in EpLayers :
          /\ topology[on].constructed
          /\ LET a == get_permutation(topology[on], topology.shuffle, layer_id)
             IN  /\ routed' = [NoEpCall EXCEPT !.called = TRUE,
                                               !.op = "get_permutation",
                                               !.on = on, !.layer = layer_id,
                                               !.perm = a.perm]
                 /\ topology' = [topology EXCEPT ![on] = a.topo]
    /\ UNCHANGED simVars

EpSetNumPermutationLayers ==
    /\ topology.kind = "EpExpander"
    /\ ~routed.aborted
    /\ \E on \in EpInstances, num_layers \in 0 .. MaxLayer :
          /\ topology[on].constructed
          /\ routed' = [NoEpCall EXCEPT !.called = TRUE,
                                        !.op = "set_num_permutation_layers",
                                        !.on = on, !.layer = num_layers]
          /\ topology' = [topology EXCEPT
                             ![on] = set_num_permutation_layers(@, num_layers)]
    /\ UNCHANGED simVars

EpClone ==
    /\ topology.kind = "EpExpander"
    /\ ~routed.aborted
    /\ routed' = [NoEpCall EXCEPT !.called = TRUE, !.op = "clone",
                                  !.on = "original"]
    /\ topology' = [topology EXCEPT !.clone = EpExpander_clone(topology.file)]
    /\ UNCHANGED simVars

InitEpExpander ==
    /\ \E file \in RouteFiles, shuffle \in ShuffleTables :
          /\ topology = [kind |-> "EpExpander", file |-> file,
                         shuffle |-> shuffle,
                         original |-> EpExpanderTopology(file),
                         clone |-> NoInstance]
          /\ InitSim(EpExpander_links(file))
    /\ bandwidth = MaxBandwidth
    /\ latency = MaxLatency
    /\ random_queue_enabled = FALSE
    /\ workload = NoWorkload
    /\ routed = NoEpCall

NextEpExpander ==
    \/ EpRoute
    \/ EpGetPermutation
    \/ EpSetNumPermutationLayers
    \/ EpClone

SpecEpExpander == InitEpExpander /\ [][NextEpExpander]_vars

(***************************************************************************)
(* EpExpanderTopology: routes between local ranks, which the permutation   *)
(* of the layer maps onto expander nodes.                                  *)
(***************************************************************************)
\* perm[i] for a rank i: the element of the vector or, for i outside the
\* vector, whatever the read past its end gives: a device id, or a value
\* that is no device id (EpNodeCount stands for all of these)
perm_at(perm, i) ==
    IF i < Len(perm) THEN {perm[i + 1]} ELSE 0 .. EpNodeCount

route_with_permutation(t, shuffle, src, dest, layer_id, r) ==
    IF src = dest
        THEN {[route |-> <<src>>, index |-> 0, aborted |-> FALSE,
               perm |-> <<>>, permuted_src |-> src, permuted_dst |-> dest,
               topo |-> t]}
    ELSE LET p == get_permutation(t, shuffle, layer_id)
         IN  {LET a == IF permuted_src \in EpDevices /\ permuted_dst \in EpDevices
                           THEN EpExpander_route(p.topo, permuted_src,
                                                 permuted_dst, r)
                       ELSE [route |-> <<>>, index |-> 0, aborted |-> TRUE]
              IN  [route |-> a.route, index |-> a.index,
                   aborted |-> a.aborted, perm |-> p.perm,
                   permuted_src |-> permuted_src,
                   permuted_dst |-> permuted_dst, topo |-> p.topo] :
                 permuted_src \in perm_at(p.perm, src),
                 permuted_dst \in perm_at(p.perm, dest)}

get_all_routes_with_permutation(t, shuffle, src, dest, layer_id) ==
    IF src = dest
        THEN {[all_routes |-> <<<<src>>>>, aborted |-> FALSE,
               perm |-> <<>>, permuted_src |-> src, permuted_dst |-> dest,
               topo |-> t]}
    ELSE LET p == get_permutation(t, shuffle, layer_id)
         IN  {LET listed == <<permuted_src, permuted_dst>>
                                \in DOMAIN p.topo.routes
                  route_options == IF listed
                                       THEN p.topo.routes[<<permuted_src,
                                                            permuted_dst>>]
                                   ELSE <<>>
              IN  [all_routes |-> [i \in 1 .. Len(route_options) |->
                                      route_options[i].path],
                   aborted |-> Len(route_options) = 0,
                   perm |-> p.perm, permuted_src |-> permuted_src,
                   permuted_dst |-> permuted_dst, topo |-> p.topo] :
                 permuted_src \in perm_at(p.perm, src),
                 permuted_dst \in perm_at(p.perm, dest)}

NoPermutedCall == [called |-> FALSE, op |-> "", on |-> "original",
                   src |-> 0, dest |-> 0, layer |-> 0, r |-> 0, index |-> 0,
                   route |-> <<>>, all_routes |-> <<>>, perm |-> <<>>,
                   permuted_src |-> 0, permuted_dst |-> 0,
                   aborted |-> FALSE]

EpRouteWithPermutation ==
    /\ topology.kind = "EpExpander"
    /\ ~routed.aborted
    /\ \E src, dest \in EpDevices, layer_id \in EpLayers,
          r \in 0 .. WeightScale - 1 :
          \E a \in route_with_permutation(topology.original, topology.shuffle,
                                          src, dest, layer_id, r) :
              /\ routed' = [NoPermutedCall EXCEPT
                               !.called = TRUE,
                               !.op = "route_with_permutation",
                               !.src = src, !.dest = dest,
                               !.layer = layer_id, !.r = r,
                               !.index = a.index, !.route = a.route,
                               !.perm = a.perm,
                               !.permuted_src = a.permuted_src,
                               !.permuted_dst = a.permuted_dst,
                               !.aborted = a.aborted]
              /\ topology' = [topology EXCEPT !.original = a.topo]
    /\ UNCHANGED simVars

EpGetAllRoutesWithPermutation ==
    /\ topology.kind = "EpExpander"
    /\ ~routed.aborted
    /\ \E src, dest \in EpDevices, layer_id \in EpLayers :
          \E a \in get_all_routes_with_permutation(
                       topology.original, topology.shuffle, src, dest,
                       layer_id) :
              /\ routed' = [NoPermutedCall EXCEPT
                               !.called = TRUE,
                               !.op = "get_all_routes_with_permutation",
                               !.src = src, !.dest = dest,
                               !.layer = layer_id,
                               !.all_routes = a.all_routes,
                               !.perm = a.perm,
                               !.permuted_src = a.permuted_src,
                               !.permuted_dst = a.permuted_dst,
                               !.aborted = a.aborted]
              /\ topology' = [topology EXCEPT !.original = a.topo]
    /\ UNCHANGED simVars

EpSetLayers ==
    /\ topology.kind = "EpExpander"
    /\ ~routed.aborted
    /\ \E num_layers \in 0 .. MaxLayer :
          /\ routed' = [NoPermutedCall EXCEPT
                           !.called = TRUE,
                           !.op = "set_num_permutation_layers",
                           !.layer = num_layers]
          /\ topology' = [topology EXCEPT
                             !.original =
                                 set_num_permutation_layers(@, num_layers)]
    /\ UNCHANGED simVars

InitEpPermuted ==
    /\ \E file \in RouteFiles, shuffle \in ShuffleTables :
          /\ topology = [kind |-> "EpExpander", file |-> file,
                         shuffle |-> shuffle,
                         original |-> EpExpanderTopology(file),
                         clone |-> NoInstance]
          /\ InitSim(EpExpander_links(file))
    /\ bandwidth = MaxBandwidth
    /\ latency = MaxLatency
    /\ random_queue_enabled = FALSE
    /\ workload = NoWorkload
    /\ routed = NoPermutedCall

NextEpPermuted ==
    \/ EpRouteWithPermutation
    \/ EpGetAllRoutesWithPermutation
    \/ EpSetLayers

SpecEpPermuted == InitEpPermuted /\ [][NextEpPermuted]_vars

(***************************************************************************)
(* ExpanderGraph::ExpanderGraph with resiliency spares: the devices are    *)
(* the NPUs and npus_count / 8 spare nodes, the full graph of the file is  *)
(* connected edge by edge.                                                 *)
(***************************************************************************)
SpareNpus == 8

SpareDevices == 0 .. (SpareNpus + SpareNpus \div 8 - 1)

\* the input files: the ring of the NPUs and, in the files of
\* npus_count + npus_count / 8 nodes, the spare node listed with any set of
\* NPUs, every edge at both endpoints
SpareFiles ==
    LET ring(n) == {(n + 1) % SpareNpus, (n + SpareNpus - 1) % SpareNpus}
    IN  {[node_count |-> SpareNpus,
          connected_graph_adjacency |->
              [n \in 0 .. SpareNpus - 1 |-> SortedSeq(ring(n))]]}
        \cup
        {[node_count |-> SpareNpus + SpareNpus \div 8,
          connected_graph_adjacency |->
              [n \in SpareDevices |->
                  IF n < SpareNpus
                  THEN SortedSeq(ring(n) \cup
                                 (IF n \in S THEN {SpareNpus} ELSE {}))
                  ELSE SortedSeq(S)]] : S \in SUBSET (0 .. SpareNpus - 1)}

\* ExpanderGraph::connect with its assertions; st = [adj, links, outcome]
connect_asserted(st, asserts, npus_count, src, dest) ==
    IF st.outcome # "" THEN st
    ELSE IF asserts /\ ~(src < npus_count /\ dest < npus_count)
    THEN [st EXCEPT !.outcome = "assert"]
    ELSE IF src = dest \/ dest \in Range(st.adj[src]) THEN st
    ELSE [st EXCEPT !.adj = ExpanderGraph_connect(st.adj, src, dest),
                    !.links = @ \cup Topology_connect(src, dest)]

\* the loops over the nodes of the file and over the neighbours of a node
RECURSIVE full_graph_loop(_, _, _, _, _, _)
full_graph_loop(st, asserts, npus_count, adjacency, node_id, k) ==
    IF node_id \notin DOMAIN adjacency THEN st
    ELSE IF k > Len(adjacency[node_id])
    THEN full_graph_loop(st, asserts, npus_count, adjacency, node_id + 1, 1)
    ELSE LET neighbor_id == adjacency[node_id][k]
             next == IF node_id < neighbor_id
                     THEN connect_asserted(st, asserts, npus_count, node_id,
                                           neighbor_id)
                     ELSE st
         IN  full_graph_loop(next, asserts, npus_count, adjacency, node_id,
                             k + 1)

\* the constructor in full-graph mode: outcome "exit" for a node count that
\* does not fit, "assert" for a failed assertion, "constructed" otherwise
ExpanderGraph_full_graph(npus_count, file, use_resiliency, asserts) ==
    LET empty == [adj |-> [n \in 0 .. (npus_count + npus_count \div 8 - 1)
                              |-> <<>>],
                  links |-> {}, outcome |-> ""]
    IN  IF \/ ~use_resiliency /\ npus_count # file.node_count
           \/ use_resiliency
                /\ file.node_count # npus_count + npus_count \div 8
        THEN [empty EXCEPT !.outcome = "exit"]
        ELSE LET st == full_graph_loop(empty, asserts, npus_count,
                                       file.connected_graph_adjacency, 0, 1)
             IN  IF st.outcome = "" THEN [st EXCEPT !.outcome = "constructed"]
                 ELSE st

ExpanderSparesConstruct ==
    /\ topology.kind = "ExpanderSpares"
    /\ topology.outcome = ""
    /\ LET st == ExpanderGraph_full_graph(topology.npus_count, topology.file,
                                          topology.use_resiliency,
                                          topology.asserts)
       IN  /\ topology' = [topology EXCEPT !.outcome = st.outcome,
                                           !.adjacency_list = st.adj]
           /\ links' = st.links
           /\ busy' = WithNewLinks(busy, st.links, FALSE)
           /\ pending_chunks' = WithNewLinks(pending_chunks, st.links, <<>>)
           /\ sendLog' = WithNewLinks(sendLog, st.links, <<>>)
           /\ arriveLog' = WithNewLinks(arriveLog, st.links, <<>>)
           /\ failed' = IF st.outcome = "constructed" THEN "" ELSE st.outcome
    /\ UNCHANGED <<current_time, event_queue, bandwidth, latency,
                   random_queue_enabled, chunks, lastSend, workload, routed>>

\* asserts: whether the build keeps the assertions (no NDEBUG)
InitExpanderSpares ==
    /\ \E file \in SpareFiles, use_resiliency, asserts \in BOOLEAN :
          topology = [kind |-> "ExpanderSpares", npus_count |-> SpareNpus,
                      file |-> file, use_resiliency |-> use_resiliency,
                      asserts |-> asserts, outcome |-> "",
                      adjacency_list |-> [n \in SpareDevices |-> <<>>]]
    /\ InitSim({})
    /\ bandwidth = MaxBandwidth
    /\ latency = MaxLatency
    /\ random_queue_enabled = FALSE
    /\ workload = NoWorkload
    /\ routed = NoRoute

NextExpanderSpares == ExpanderSparesConstruct

SpecExpanderSpares == InitExpanderSpares /\ [][NextExpanderSpares]_vars

(***************************************************************************)
(* MultiDimTopology, the variant for transfers along one dimension: every  *)
(* dimension has one clone of its topology per slice, and route() asks the *)
(* slice of the source for the local route.                                *)
(***************************************************************************)
\* get_slice_index: the coordinates of the other dimensions, mixed radix
RECURSIVE slice_index_from(_, _, _, _, _)
slice_index_from(npd, dim, address, d, index) ==
    IF d > Len(npd) THEN index
    ELSE IF d = dim THEN slice_index_from(npd, dim, address, d + 1, index)
    ELSE slice_index_from(npd, dim, address, d + 1,
                          index * npd[d] + address[d])

get_slice_index(npd, dim, address) ==
    slice_index_from(npd, dim, address, 1, 0)

\* build_slices_and_validate: the number of slices of a dimension
slices_count(npd, dim) ==
    MultiDim_npus_count([d \in 1 .. Len(npd) |->
                            IF d = dim THEN 1 ELSE npd[d]])

\* build_slices_and_validate: the assertions on the routes of every slice
slices_valid(dims) ==
    \A dim \in 1 .. Len(dims) :
        \A src, dest \in 0 .. (dims[dim].npus_count - 1) :
            LET route == BasicTopology_route(dims[dim], src, dest)
            IN  /\ route # <<>>
                /\ route[1] = src
                /\ route[Len(route)] = dest

\* a plausible slip: the first differing dimension, however many differ
get_dim_to_transfer_First(src_address, dest_address) ==
    LET differing == {dim \in 1 .. Len(src_address) :
                         src_address[dim] # dest_address[dim]}
    IN  IF differing # {}
        THEN CHOOSE dim \in differing : \A d \in differing : dim <= d
        ELSE 0

\* get_dim_to_transfer: the differing dimension, 0 for exit(-1)
get_dim_to_transfer(src_address, dest_address) ==
    LET differing == {dim \in 1 .. Len(src_address) :
                         src_address[dim] # dest_address[dim]}
    IN  IF Cardinality(differing) = 1
        THEN CHOOSE dim \in differing : TRUE
        ELSE 0

SingleDim_route(dims, src, dest) ==
    LET npd == npus_count_per_dim(dims)
        src_address == translate_address(npd, src)
        dest_address == translate_address(npd, dest)
        dim_to_transfer == get_dim_to_transfer(src_address, dest_address)
    IN  IF dim_to_transfer = 0
        THEN [outcome |-> "exit", dim |-> 0, slice_index |-> 0,
              route |-> <<>>]
        ELSE [outcome |-> "route", dim |-> dim_to_transfer,
              slice_index |-> get_slice_index(npd, dim_to_transfer,
                                              src_address),
              route |-> BasicTopology_route(dims[dim_to_transfer],
                                            src_address[dim_to_transfer],
                                            dest_address[dim_to_transfer])]

SingleDimRoute ==
    /\ failed = ""
    /\ topology.kind = "SingleDim"
    /\ \E src, dest \in 0 .. (topology.npus_count - 1) :
          LET r == SingleDim_route(topology.dims, src, dest)
          IN  /\ routed' = [called |-> TRUE, src |-> src, dest |-> dest,
                            outcome |-> r.outcome, dim |-> r.dim,
                            slice_index |-> r.slice_index,
                            route |-> r.route]
              /\ failed' = IF r.outcome = "exit" THEN "exit" ELSE ""
    /\ lastSend' = NoSend
    /\ UNCHANGED <<current_time, event_queue, links, bandwidth, latency, busy,
                   pending_chunks, random_queue_enabled, chunks, sendLog,
                   arriveLog, workload, topology>>

InitSingleDim ==
    /\ \E dims \in Dimensions :
          /\ MultiDim_npus_count(npus_count_per_dim(dims)) <= MaxMultiDimNpus
          /\ slices_valid(dims)
          /\ topology = [kind |-> "SingleDim", dims |-> dims,
                         npus_count |->
                             MultiDim_npus_count(npus_count_per_dim(dims))]
    /\ InitSim({})
    /\ bandwidth = MaxBandwidth
    /\ latency = MaxLatency
    /\ random_queue_enabled = FALSE
    /\ workload = NoWorkload
    /\ routed = [called |-> FALSE, src |-> 0, dest |-> 0, outcome |-> "",
                 dim |-> 0, slice_index |-> 0, route |-> <<>>]

NextSingleDim == SingleDimRoute

SpecSingleDim == InitSingleDim /\ [][NextSingleDim]_vars

(***************************************************************************)
(* Helpers of the properties.                                              *)
(***************************************************************************)
Hops(ch) == Len(ch.route) - 1

EventsOf(cb, l, c) ==
    {i \in 1 .. Len(event_queue) :
        /\ event_queue[i].callback = cb
        /\ event_queue[i].link = l
        /\ event_queue[i].chunk = c}

\* C1: Link.send on a free link at time t makes the link busy and schedules
\* exactly two events: the arrival at t + latency + size/bandwidth and the
\* link-free at t + size/bandwidth (truncated), one latency apart.
C1_SendOnFreeLink ==
    (lastSend.called /\ ~lastSend.was_busy) =>
        LET l == lastSend.link
            c == lastSend.chunk
            t == lastSend.time
            size == chunks[c].size
            arr == EventsOf("chunk_arrived_next_device", l, c)
            fre == EventsOf("link_become_free", l, c)
        IN  /\ busy[l]
            /\ Len(event_queue) = lastSend.events_before + 2
            /\ Cardinality(arr) = 1
            /\ Cardinality(fre) = 1
            /\ \A i \in arr :
                  event_queue[i].time = t + latency + (size \div bandwidth)
            /\ \A i \in fre :
                  event_queue[i].time = t + (size \div bandwidth)
            /\ \A i \in arr, j \in fre :
                  event_queue[i].time - event_queue[j].time = latency

C1_Witness ==
    /\ lastSend.called
    /\ ~lastSend.was_busy
    /\ lastSend.time > 0
    /\ latency > 0
    /\ chunks[lastSend.chunk].size \div bandwidth > 0

\* C2: under FIFO the arrival events of a link fire in the order in which
\* Link.send received the chunks.
C2_FifoArrivalOrder ==
    ~random_queue_enabled =>
        \A l \in links :
            /\ Len(arriveLog[l]) <= Len(sendLog[l])
            /\ arriveLog[l] = SubSeq(sendLog[l], 1, Len(arriveLog[l]))

C2_Witness ==
    /\ ~random_queue_enabled
    /\ \E l \in links :
          /\ Len(arriveLog[l]) = 3
          /\ chunks[arriveLog[l][1]].size > chunks[arriveLog[l][3]].size
          /\ chunks[arriveLog[l][2]].sentAt = chunks[arriveLog[l][1]].sentAt
          /\ chunks[arriveLog[l][3]].sentAt = chunks[arriveLog[l][1]].sentAt

\* C3: running the event queue until finished() terminates, and at that
\* point every chunk that was sent has had its callback invoked, nothing
\* waits in a pending queue and nothing is in flight.  Termination: every
\* proceed() lowers Remaining, the number of events still to fire (those
\* queued, and two for every hop not yet scheduled), by exactly one.
InFlight(c) ==
    \E i \in 1 .. Len(event_queue) :
        /\ event_queue[i].callback = "chunk_arrived_next_device"
        /\ event_queue[i].chunk = c

Queued(c) ==
    \E l \in links : \E i \in 1 .. Len(pending_chunks[l]) : pending_chunks[l][i] = c

UnscheduledHops(c) ==
    IF Delivered(chunks[c]) THEN 0
    ELSE (Len(chunks[c].route) - chunks[c].cursor) - (IF InFlight(c) THEN 1 ELSE 0)

RECURSIVE SumUnscheduled(_)
SumUnscheduled(n) ==
    IF n = 0 THEN 0 ELSE UnscheduledHops(n) + SumUnscheduled(n - 1)

Remaining == Len(event_queue) + 2 * SumUnscheduled(Len(chunks))

Quiescent ==
    /\ finished
    /\ \A c \in 1 .. Len(chunks) : chunks[c].callbacks = 1
    /\ \A l \in links : pending_chunks[l] = <<>> /\ ~busy[l]

C3_EveryChunkDelivered ==
    /\ [](finished => Quiescent)
    /\ [](\A c \in 1 .. Len(chunks) :
             \/ Delivered(chunks[c])
             \/ (InFlight(c) /\ ~Queued(c))
             \/ (Queued(c) /\ ~InFlight(c)))
    /\ [][Len(chunks') = Len(chunks) => Remaining' = Remaining - 1]_vars

C3_Witness ==
    /\ Quiescent
    /\ Len(chunks) = MaxChunks
    /\ \E c \in 1 .. Len(chunks) :
          /\ Hops(chunks[c]) = 2
          /\ chunks[c].doneAt - chunks[c].sentAt
                > 2 * (latency + (chunks[c].size \div bandwidth))

ScenarioDone == AllSent /\ finished

\* C9: with 50 GB/s links of 500 ns and a chunk of 1,048,576 bytes sent from
\* NPU 1 to NPU 4, the simulation ends at 60,093 ns on Ring(8), at 20,031 ns
\* on FullyConnected(8) and at 40,062 ns on Switch(8).
C9_SingleChunkCompletionTime ==
    ScenarioDone =>
        /\ workload.scenario = "Ring" => current_time = 60093
        /\ workload.scenario = "FullyConnected" => current_time = 20031
        /\ workload.scenario = "Switch" => current_time = 40062

\* C10: the all-gather on Ring(8), 56 chunks of 1,048,576 bytes all sent at
\* time 0 over 50 GB/s links of 500 ns, ends at exactly 704,116 ns.
C10_AllGatherCompletionTime ==
    (ScenarioDone /\ workload.scenario = "AllGatherOnRing") =>
        current_time = 704116

(***************************************************************************)
(* Routes of the topologies.                                               *)
(***************************************************************************)
\* C4: in a FatTree, under both routing algorithms, the route between two
\* different NPUs starts at the source, ends at the destination, and every
\* two consecutive devices of it are joined by a link of the constructor.
C4_FatTreeRouteIsLinked ==
    (topology.kind = "FatTree" /\ routed.called /\ routed.src # routed.dest) =>
        /\ routed.route # <<>>
        /\ Head(routed.route) = routed.src
        /\ routed.route[Len(routed.route)] = routed.dest
        /\ LinkedRoute(routed.route)

\* C7: route(i,i) is the one-element route <<i>>, and a chunk sent on it has
\* its callback invoked at the time of the send.
C7_SelfRouteIsImmediate ==
    (routed.called /\ routed.src = routed.dest) =>
        /\ routed.route = <<routed.src>>
        /\ \A c \in 1 .. Len(chunks) :
              /\ Delivered(chunks[c])
              /\ chunks[c].doneAt = chunks[c].sentAt
              /\ current_time = chunks[c].sentAt

\* C5: the dimension-ordered route of a MultiDimTopology between two
\* different NPUs returns without an abort, starts at the source, ends at
\* the destination, and every two consecutive devices of it have a link when
\* it returns.
C5_MultiDimRouteIsLinked ==
    (topology.kind = "MultiDim" /\ routed.called /\ routed.src # routed.dest) =>
        /\ ~routed.aborted
        /\ Head(routed.route) = routed.src
        /\ routed.route[Len(routed.route)] = routed.dest
        /\ LinkedRoute(routed.route)

\* C6: for ExpanderGraph and SwitchOrExpander, in either mode and under
\* either routing algorithm, compute_hops_count(s,d) is the number of
\* devices of route(s,d) minus one, for s different from d.
C6_HopsCountIsRouteLength ==
    (/\ topology.kind \in {"ExpanderGraph", "SwitchOrExpander"}
     /\ routed.called
     /\ routed.src # routed.dest
     /\ routed.hops # NotAsked) =>
        routed.hops = Len(routed.route) - 1

(***************************************************************************)
(* The congestion-unaware model.                                           *)
(***************************************************************************)
\* C11: in the congestion-unaware model send(src,dst,size) is
\* hops*latency + size/bandwidth, and on Ring(8) with 50 GB/s and 500 ns
\* send(1, 4, 1048576) is 21,031 ns.
C11_UnawareRingDelay ==
    (/\ topology.kind = "Ring"
     /\ topology.npus_count = 8
     /\ bandwidth = 50
     /\ latency = 500
     /\ routed.called
     /\ routed.src = 1
     /\ routed.dest = 4
     /\ routed.size = 1048576) =>
        /\ routed.delay = routed.hops * latency + routed.size \div bandwidth
        /\ routed.delay = 21031


IsExpanderPath(route, src, dest) ==
    /\ Len(route) >= 2
    /\ route[1] = src
    /\ route[Len(route)] = dest
    /\ \A i \in 1 .. Len(route) - 1 :
          /\ route[i] \in ExpanderNodes
          /\ route[i + 1] \in Range(topology.adjacency_list[route[i]])

C13_MixedModeAborts ==
    (/\ topology.kind = "SwitchOrExpander"
     /\ routed.called
     /\ routed.src # routed.dest
     /\ routed.src_moe # routed.dest_moe) =>
        /\ ~routed.returned
        /\ routed.route = <<>>
        /\ routed.value = NotAsked


\* C14: with NPU n on leaf n div (k/2) and leaf l in pod l div (k/2), the
\* route of FatTree between two different NPUs has 3 devices when the two
\* leaves are the same, 5 when they differ inside one pod and 7 when the
\* pods differ, under both routing algorithms.
C14_FatTreeHops ==
    (topology.kind = "FatTree" /\ routed.called /\ routed.src # routed.dest) =>
        LET half == topology.k \div 2
            src_leaf == routed.src \div half
            dest_leaf == routed.dest \div half
        IN  Len(routed.route) =
               IF src_leaf = dest_leaf THEN 3
               ELSE IF src_leaf \div half = dest_leaf \div half THEN 5
               ELSE 7


InIdRange(id, offset, count) == offset <= id /\ id < offset + count

\* C15: the ids of a FatTree with N NPUs are N + L + S + C in number, and in
\* every route the devices at the leaf positions have ids in [N, N+L), those
\* at the spine positions in [N+L, N+L+S) and the one at the core position in
\* [N+L+S, N+L+S+C), with L = k*k/2, S = k*k/4, C = (k/2)*(k/2).
C15_FatTreeIdRanges ==
    (topology.kind = "FatTree" /\ routed.called) =>
        LET n == topology.npus_count
            k == topology.k
            r == routed.route
            leaf(i) == InIdRange(r[i], n, (k * k) \div 2)
            spine(i) == InIdRange(r[i], n + (k * k) \div 2, (k * k) \div 4)
            core(i) == InIdRange(r[i], n + (k * k) \div 2 + (k * k) \div 4,
                                 (k \div 2) * (k \div 2))
        IN  /\ FatTree_devices_count(n, k) =
                  n + (k * k) \div 2 + (k * k) \div 4 + (k \div 2) * (k \div 2)
            /\ Len(r) = 3 => leaf(2)
            /\ Len(r) = 5 => leaf(2) /\ spine(3) /\ leaf(4)
            /\ Len(r) = 7 => /\ leaf(2) /\ spine(3) /\ core(4)
                             /\ spine(5) /\ leaf(6)


PathsOfLen(adj, src, dest, hops) ==
    {p \in [1 .. hops + 1 -> ExpanderNodes] :
        /\ p[1] = src
        /\ p[hops + 1] = dest
        /\ \A i \in 1 .. hops : p[i + 1] \in Range(adj[p[i]])}

MinHops(adj, src, dest) ==
    CHOOSE d \in 1 .. ExpanderNpus - 1 :
        /\ PathsOfLen(adj, src, dest, d) # {}
        /\ \A e \in 1 .. d - 1 : PathsOfLen(adj, src, dest, e) = {}

\* the positions, in the neighbour lists, of the steps of a path
ListPositions(adj, p) ==
    [i \in 1 .. Len(p) - 1 |->
        CHOOSE j \in 1 .. Len(adj[p[i]]) :
            /\ adj[p[i]][j] = p[i + 1]
            /\ \A h \in 1 .. j - 1 : adj[p[i]][h] # p[i + 1]]

LexLess(a, b) ==
    \E i \in 1 .. Len(a) :
        /\ a[i] < b[i]
        /\ \A j \in 1 .. i - 1 : a[j] = b[j]

\* C16: under ShortestPath on a connected adjacency, route(src, dest) with
\* src # dest is a path of the adjacency from src to dest with the minimum
\* number of hops, compute_hops_count/get_distance returns that number, and
\* among the minimum paths it is the one BFS finds first: the least by the
\* positions of its steps in the neighbour lists.
C16_ShortestPathRoute ==
    (/\ topology.kind = "ExpanderGraph"
     /\ topology.routing_algorithm = "ShortestPath"
     /\ routed.called
     /\ routed.src # routed.dest) =>
        LET adj == topology.adjacency_list
            d == MinHops(adj, routed.src, routed.dest)
            shortest == PathsOfLen(adj, routed.src, routed.dest, d)
        IN  /\ routed.route \in shortest
            /\ \A q \in shortest \ {routed.route} :
                  LexLess(ListPositions(adj, routed.route),
                          ListPositions(adj, q))
            /\ routed.hops # NotAsked => routed.hops = d

C16_Witness ==
    /\ topology.kind = "ExpanderGraph"
    /\ topology.routing_algorithm = "ShortestPath"
    /\ routed.called
    /\ routed.hops = 2
    /\ Len(routed.route) = 3
    /\ Cardinality(PathsOfLen(topology.adjacency_list, routed.src,
                              routed.dest, 2)) = 2


RECURSIVE PlaceValue(_, _)
PlaceValue(npd, i) == IF i = 1 THEN 1 ELSE npd[i - 1] * PlaceValue(npd, i - 1)

RECURSIVE WeightedSum(_, _, _)
WeightedSum(npd, address, i) ==
    IF i = 0 THEN 0
    ELSE address[i] * PlaceValue(npd, i) + WeightedSum(npd, address, i - 1)

AddressesOf(npd) ==
    {a \in [1 .. Len(npd) -> 0 .. MaxAddressNpus - 1] :
        \A i \in 1 .. Len(npd) : a[i] < npd[i]}

\* C17: translate_address maps every id g below the product of the
\* dimension sizes to the one address with 0 <= a[i] < n[i] whose weighted
\* sum, dimension 0 weighing 1, is g, and address_to_global maps it back.
C17_AddressRoundTrip ==
    (topology.kind = "MultiDimAddress" /\ routed.called) =>
        LET npd == topology.npus_count_per_dim
        IN  /\ routed.in_range
            /\ routed.address \in AddressesOf(npd)
            /\ \A a \in AddressesOf(npd) :
                  WeightedSum(npd, a, Len(npd)) = routed.npu_id
                      <=> a = routed.address
            /\ routed.global_id = routed.npu_id

C17_Witness ==
    /\ topology.kind = "MultiDimAddress"
    /\ topology.npus_count_per_dim = <<2, 4, 3>>
    /\ routed.called
    /\ routed.npu_id = 23
    /\ routed.address = <<1, 3, 2>>
    /\ routed.global_id = 23


\* C18: every event in the queue, and so every event a Link has just
\* scheduled, has a time not earlier than the simulation time, and the
\* simulation time never decreases.
C18_NoEventInThePast ==
    /\ [](\A i \in 1 .. Len(event_queue) :
             event_queue[i].time >= current_time)
    /\ [][/\ current_time' >= current_time
          /\ \A i \in 1 .. Len(event_queue') :
                event_queue'[i].time >= current_time']_vars

C18_Witness ==
    /\ current_time > 0
    /\ lastSend.called
    /\ lastSend.time = current_time
    /\ ~lastSend.was_busy
    /\ EventsOf("link_become_free", lastSend.link, lastSend.chunk) # {}
    /\ EventsOf("chunk_arrived_next_device", lastSend.link,
                lastSend.chunk) # {}


\* Chunks a and b, in that order, were handed to link l at the same instant,
\* l being free when a came and the last hop of both, and both have arrived.
BackToBack(l, i) ==
    /\ ~random_queue_enabled
    /\ i + 1 <= Len(sendLog[l])
    /\ LET a == chunks[sendLog[l][i]]
           b == chunks[sendLog[l][i + 1]]
       IN  /\ Len(a.route) = 2 /\ Len(b.route) = 2
           /\ a.sentAt = b.sentAt
           /\ Delivered(a) /\ Delivered(b)
           /\ \A j \in 1 .. i - 1 :
                 LET p == chunks[sendLog[l][j]]
                 IN  /\ Len(p.route) = 2
                     /\ Delivered(p)
                     /\ p.doneAt < a.sentAt

\* C20, as stated: the arrival times of two chunks sent back to back on a
\* free link under FIFO differ by at least size \div bandwidth of the first
\* chunk, and by exactly that for equal sizes.
C20_GapIsFirstSerialization ==
    \A l \in links : \A i \in 1 .. Len(sendLog[l]) :
        BackToBack(l, i) =>
            LET a == chunks[sendLog[l][i]]
                b == chunks[sendLog[l][i + 1]]
            IN  /\ b.doneAt - a.doneAt >= a.size \div bandwidth
                /\ a.size = b.size =>
                      b.doneAt - a.doneAt = a.size \div bandwidth

\* C20, amended: the second chunk starts when the first has been
\* serialized, so it arrives at send time + size \div bandwidth of the first
\* + its own communication delay; the arrival times differ by
\* size \div bandwidth of the second chunk, which is that of the first for
\* equal sizes.
C20_GapIsSecondSerialization ==
    \A l \in links : \A i \in 1 .. Len(sendLog[l]) :
        BackToBack(l, i) =>
            LET a == chunks[sendLog[l][i]]
                b == chunks[sendLog[l][i + 1]]
            IN  /\ a.doneAt = a.sentAt + latency + a.size \div bandwidth
                /\ b.doneAt = a.sentAt + a.size \div bandwidth
                                  + latency + b.size \div bandwidth
                /\ b.doneAt - a.doneAt = b.size \div bandwidth
                /\ a.size = b.size =>
                      b.doneAt - a.doneAt = a.size \div bandwidth

C20_Witness ==
    \E l \in links : \E i \in 1 .. Len(sendLog[l]) :
        /\ BackToBack(l, i)
        /\ latency > 0
        /\ chunks[sendLog[l][i]].sentAt > 0
        /\ chunks[sendLog[l][i]].size > chunks[sendLog[l][i + 1]].size
        /\ chunks[sendLog[l][i + 1]].size \div bandwidth > 0


QueuedOn(l, c) ==
    \E i \in 1 .. Len(pending_chunks[l]) : pending_chunks[l][i] = c

\* C19: under the Random discipline every chunk that is in the pending
\* queue of a link is eventually out of it, whichever chunk each link-free
\* event picks, and a chunk leaves the queue only by being transmitted: the
\* step that takes it out schedules its arrival on that link.
C19_RandomQueueDrains ==
    /\ \A c \in 1 .. MaxChunks :
          (c <= Len(chunks) /\ Queued(c)) ~> (c <= Len(chunks) /\ ~Queued(c))
    /\ [][\A l \in links : \A c \in 1 .. Len(chunks) :
             (QueuedOn(l, c) /\ ~QueuedOn(l, c)') =>
                 \E i \in 1 .. Len(event_queue') :
                     /\ event_queue'[i].callback = "chunk_arrived_next_device"
                     /\ event_queue'[i].link = l
                     /\ event_queue'[i].chunk = c
                     /\ event_queue'[i].time =
                           current_time' + latency
                               + chunks[c].size \div bandwidth]_vars

\* a later chunk was picked before an earlier one, and both have left
C19_Witness ==
    /\ random_queue_enabled
    /\ \E l \in links :
          /\ Len(arriveLog[l]) = 3
          /\ arriveLog[l][2] = sendLog[l][3]
          /\ arriveLog[l][3] = sendLog[l][2]
          /\ pending_chunks[l] = <<>>


Occurrences(seq, x) == Cardinality({i \in 1 .. Len(seq) : seq[i] = x})

\* C21: after the construction of an ExpanderGraph in full-graph mode, every
\* undirected edge {u, v} of the input adjacency, listed at both endpoints
\* or at either one alone, has exactly one connection: v once among the
\* neighbours of u, u once among those of v, and a link in each direction.
C21_EveryListedEdgeConnected ==
    (topology.kind = "ExpanderFile" /\ topology.constructed) =>
        \A u, v \in ExpanderNodes :
            (u # v /\ v \in Range(topology.connected_graph_adjacency[u])) =>
                /\ Occurrences(topology.adjacency_list[u], v) = 1
                /\ Occurrences(topology.adjacency_list[v], u) = 1
                /\ <<u, v>> \in links
                /\ <<v, u>> \in links


\* C22: a step in which Link.send finds its link busy appends the chunk at
\* the tail of that link's pending queue and leaves the rest as it was: the
\* queues of the other links, which links are busy, the time, and the event
\* queue, which gains no event (it is the same, or has lost the arrival
\* event whose handler made the send).
C22_SendOnBusyLinkOnlyQueues ==
    [][(lastSend'.called /\ lastSend'.was_busy) =>
          LET l == lastSend'.link
              c == lastSend'.chunk
          IN  /\ busy[l]
              /\ pending_chunks' =
                    [pending_chunks EXCEPT ![l] = Append(@, c)]
              /\ busy' = busy
              /\ \/ /\ event_queue' = event_queue
                    /\ current_time' = current_time
                 \/ /\ event_queue # <<>>
                    /\ event_queue' = Tail(event_queue)
                    /\ Head(event_queue).callback = "chunk_arrived_next_device"
                    /\ Head(event_queue).chunk = c
                    /\ current_time' = Head(event_queue).time]_vars

C22_Witness ==
    /\ lastSend.called
    /\ lastSend.was_busy
    /\ Len(pending_chunks[lastSend.link]) = 2
    /\ pending_chunks[lastSend.link][2] = lastSend.chunk
    /\ \E l \in links : l # lastSend.link /\ busy[l]


HasEvent(eq, cb, l, c, time) ==
    \E i \in 1 .. Len(eq) :
        /\ eq[i].callback = cb
        /\ eq[i].link = l
        /\ eq[i].chunk = c
        /\ eq[i].time = time

\* C23: the step that fires a link-free event of link l at time t: with an
\* empty pending queue it leaves l free and schedules nothing; otherwise it
\* removes exactly one chunk from the queue (the head under FIFO, any one
\* under Random), keeps the order of the others, and starts its
\* transmission at t: l is busy, and the arrival and link-free events of
\* that chunk are scheduled from t.
C23_LinkFreeServesOneChunk ==
    [][(/\ failed = ""
        /\ event_queue # <<>>
        /\ Head(event_queue).callback = "link_become_free"
        /\ Len(chunks') = Len(chunks)) =>
          LET e == Head(event_queue)
              l == e.link
              q == pending_chunks[l]
          IN  /\ busy[l]
              /\ current_time' = e.time
              /\ \A m \in links \ {l} :
                    /\ busy'[m] = busy[m]
                    /\ pending_chunks'[m] = pending_chunks[m]
              /\ q = <<>> =>
                    /\ ~busy'[l]
                    /\ pending_chunks'[l] = <<>>
                    /\ event_queue' = Tail(event_queue)
              /\ q # <<>> =>
                    /\ busy'[l]
                    /\ Len(event_queue') = Len(event_queue) + 1
                    /\ \E i \in 1 .. Len(q) :
                          /\ random_queue_enabled \/ i = 1
                          /\ pending_chunks'[l] = RemoveAt(q, i)
                          /\ HasEvent(event_queue',
                                      "chunk_arrived_next_device", l, q[i],
                                      e.time + latency
                                          + chunks[q[i]].size \div bandwidth)
                          /\ HasEvent(event_queue', "link_become_free", l,
                                      q[i],
                                      e.time + chunks[q[i]].size
                                                   \div bandwidth)]_vars

\* a link-free event has just served the second of three queued chunks
C23_Witness ==
    /\ random_queue_enabled
    /\ \E l \in links :
          /\ Len(sendLog[l]) = 3
          /\ Len(pending_chunks[l]) = 1
          /\ pending_chunks[l][1] = sendLog[l][2]
          /\ busy[l]
          /\ EventsOf("link_become_free", l, sendLog[l][3]) # {}
          /\ current_time > 0


FreeEventsOf(l) ==
    {i \in 1 .. Len(event_queue) :
        /\ event_queue[i].callback = "link_become_free"
        /\ event_queue[i].link = l}

\* C24: the !busy assertion of schedule_chunk_transmission never fails, and
\* a link is busy exactly when one link-free event is pending for it, never
\* more than one: every link-free event fires on a busy link, and chunks
\* wait only at busy links.
C24_OneTransmissionPerLink ==
    /\ failed # "assert(!busy)"
    /\ \A l \in links :
          /\ Cardinality(FreeEventsOf(l)) <= 1
          /\ busy[l] <=> FreeEventsOf(l) # {}
          /\ pending_chunks[l] # <<>> => busy[l]

C24_Witness ==
    \E l \in links :
        /\ busy[l]
        /\ Len(pending_chunks[l]) = 2
        /\ Cardinality(FreeEventsOf(l)) = 1
        /\ current_time > 0
        /\ \E m \in links \ {l} : busy[m]


RECURSIVE SumOf(_, _)
SumOf(f, n) == IF n = 0 THEN 0 ELSE f[n] + SumOf(f, n - 1)

\* the hop count of dimension d of its own route between the coordinates
DimHops(dims, d, a, b) ==
    IF a = b THEN 0 ELSE Len(BasicTopology_route(dims[d], a, b)) - 1

\* C25: a route that MultiDimTopology.route returns for src # dest moves in
\* one coordinate per hop, in increasing order of the dimensions (the lower
\* coordinates are already those of dest), and its hop count is the sum
\* over the dimensions of the hop count of the dimension's own route
\* between the two coordinates (2 for a Switch, 1 for a FullyConnected).
C25_DimensionOrderedRoute ==
    (/\ topology.kind = "MultiDim"
     /\ routed.called
     /\ routed.src # routed.dest
     /\ ~routed.aborted) =>
        LET npd == npus_count_per_dim(topology.dims)
            r == routed.route
            s == translate_address(npd, routed.src)
            t == translate_address(npd, routed.dest)
            addr(i) == translate_address(npd, r[i])
        IN  /\ \A i \in 1 .. Len(r) - 1 :
                  \E d \in 1 .. Len(npd) :
                      /\ addr(i)[d] # addr(i + 1)[d]
                      /\ \A e \in 1 .. Len(npd) \ {d} :
                            addr(i)[e] = addr(i + 1)[e]
                      /\ \A e \in 1 .. d - 1 : addr(i)[e] = t[e]
            /\ Len(r) - 1 =
                  SumOf([d \in 1 .. Len(npd) |->
                            DimHops(topology.dims, d, s[d], t[d])], Len(npd))


\* C26: whatever was asked before, a call of route, compute_hops_count or
\* get_distance returns for its pair what the same call returns on the
\* topology as constructed, with nothing cached.
C26_MemoizationIsTransparent ==
    (/\ topology.kind \in {"SwitchOrExpanderRouteCache", "ExpanderGraphMemo"}
     /\ routed.called) =>
        LET fresh == Answer(Fresh(topology), routed.op, routed.src,
                            routed.dest)
        IN  /\ routed.route = fresh.route
            /\ routed.value = fresh.value


HopLink(ch, i) == <<ch.route[i], ch.route[i + 1]>>

ArrivalEventsOf(c) ==
    {i \in 1 .. Len(event_queue) :
        /\ event_queue[i].callback = "chunk_arrived_next_device"
        /\ event_queue[i].chunk = c}

QueuePlacesOf(c) ==
    {<<l, i>> \in links \X (1 .. MaxChunks) :
        i <= Len(pending_chunks[l]) /\ pending_chunks[l][i] = c}

\* C27: a chunk whose cursor is at device k of its route has arrived over
\* exactly the first k - 1 links of the route, once per hop; its callback
\* has been invoked once if k is the last device and never otherwise; and
\* until then it is in exactly one place, the pending queue or the pending
\* arrival event of the link from device k to device k + 1.  The cursor
\* moves one device per arrival event of the chunk.
C27_ChunkFollowsRoute ==
    /\ [](\A c \in 1 .. Len(chunks) :
             LET ch == chunks[c]
                 k == ch.cursor
             IN  /\ k \in 1 .. Len(ch.route)
                 /\ ch.callbacks = (IF k = Len(ch.route) THEN 1 ELSE 0)
                 /\ \A l \in links :
                       Occurrences(arriveLog[l], c) =
                          Cardinality({i \in 1 .. k - 1 : HopLink(ch, i) = l})
                 /\ Cardinality(ArrivalEventsOf(c))
                        + Cardinality(QueuePlacesOf(c))
                      = (IF k = Len(ch.route) THEN 0 ELSE 1)
                 /\ \A i \in ArrivalEventsOf(c) :
                       event_queue[i].link = HopLink(ch, k)
                 /\ \A p \in QueuePlacesOf(c) : p[1] = HopLink(ch, k))
    /\ [][\A c \in 1 .. Len(chunks) :
             \/ chunks'[c].cursor = chunks[c].cursor
             \/ /\ chunks'[c].cursor = chunks[c].cursor + 1
                /\ event_queue # <<>>
                /\ Head(event_queue).callback = "chunk_arrived_next_device"
                /\ Head(event_queue).chunk = c
                /\ Head(event_queue).link = HopLink(chunks[c], chunks[c].cursor)
                /\ current_time' = Head(event_queue).time]_vars

\* a two-hop chunk has been delivered after waiting in a queue
C27_Witness ==
    \E c \in 1 .. Len(chunks) :
        /\ Len(chunks[c].route) = 3
        /\ chunks[c].cursor = 3
        /\ chunks[c].callbacks = 1
        /\ chunks[c].doneAt - chunks[c].sentAt
              > 2 * (latency + chunks[c].size \div bandwidth)


IsSimplePath(adj, p, src, dest) ==
    /\ Len(p) >= 2
    /\ p[1] = src
    /\ p[Len(p)] = dest
    /\ \A i, j \in 1 .. Len(p) : i # j => p[i] # p[j]
    /\ \A i \in 1 .. Len(p) - 1 : p[i + 1] \in Range(adj[p[i]])

C29_CloneBehavesLikeOriginal ==
    [][(topology'.kind = "EpExpander" /\ routed'.op = "clone") =>
          /\ topology'.clone.routes = topology'.original.routes
          /\ \A layer_id \in EpLayers :
                get_permutation(topology'.clone, topology'.shuffle,
                                layer_id).perm
                    = get_permutation(topology'.original, topology'.shuffle,
                                      layer_id).perm]_vars

\* the part that holds: the clone lists the routes of the original, and has
\* the permutations of the original when no number of layers was set on it
C29_CloneOfDefaultSettings ==
    [][(topology'.kind = "EpExpander" /\ routed'.op = "clone") =>
          /\ topology'.clone.routes = topology'.original.routes
          /\ topology'.original.num_permutation_layers = 0 =>
                \A layer_id \in EpLayers :
                    get_permutation(topology'.clone, topology'.shuffle,
                                    layer_id).perm
                        = get_permutation(topology'.original,
                                          topology'.shuffle, layer_id).perm]_vars

\* C30: a route call for src # dest that returns gives the path of an entry
\* listed for the pair in the routes file, the first entry whose cumulative
\* weight exceeds the draw r, else the last; an entry of weight 0 that is
\* not the last is never returned, and the last entry is returned whenever
\* r is not below the total weight.
C30_WeightedRouteSelection ==
    (/\ topology.kind = "EpExpander"
     /\ routed.called
     /\ routed.op = "route"
     /\ routed.src # routed.dest
     /\ ~routed.aborted) =>
        LET listed == topology.file.routes[<<routed.src, routed.dest>>]
            weight_upto(i) == SumOf([k \in 1 .. Len(listed) |->
                                        listed[k].weight], i)
            below == {i \in 1 .. Len(listed) : routed.r < weight_upto(i)}
        IN  /\ routed.index \in 1 .. Len(listed)
            /\ routed.route = listed[routed.index].path
            /\ Len(listed) > 1 =>
                  \/ /\ routed.index \in below
                     /\ \A i \in below : routed.index <= i
                  \/ below = {} /\ routed.index = Len(listed)
            /\ listed[routed.index].weight = 0 => routed.index = Len(listed)
            /\ routed.r >= weight_upto(Len(listed)) =>
                  routed.index = Len(listed)

\* three entries of weights 0, 1/2 and 0, and a draw of 1/2: the last entry,
\* of weight 0, is returned by the clone
C30_Witness ==
    /\ topology.kind = "EpExpander"
    /\ routed.called
    /\ routed.op = "route"
    /\ routed.on = "clone"
    /\ routed.src # routed.dest
    /\ Len(topology.file.routes[<<routed.src, routed.dest>>]) = 3
    /\ topology.file.routes[<<routed.src, routed.dest>>][1].weight = 0
    /\ topology.file.routes[<<routed.src, routed.dest>>][2].weight = 1
    /\ routed.r = 1
    /\ routed.index = 3


\* C31: route_with_permutation and get_all_routes_with_permutation look the
\* permutation of the layer up at src and at dest only inside its range
\* [0, ep_node_count), for every src and dest in [0, npus_count), also when
\* the routes file declares fewer ep_nodes than node_count.
C31_PermutationIndexInRange ==
    (/\ topology.kind = "EpExpander"
     /\ routed.called
     /\ routed.op \in {"route_with_permutation",
                       "get_all_routes_with_permutation"}
     /\ routed.src # routed.dest) =>
        /\ routed.src < topology.original.ep_node_count
        /\ routed.dest < topology.original.ep_node_count

\* the part that holds: for ranks inside [0, ep_node_count) the permuted
\* pair is the image of the pair under the permutation of the layer
C31_RanksInsideArePermuted ==
    (/\ topology.kind = "EpExpander"
     /\ routed.called
     /\ routed.op \in {"route_with_permutation",
                       "get_all_routes_with_permutation"}
     /\ routed.src # routed.dest
     /\ routed.src < topology.original.ep_node_count
     /\ routed.dest < topology.original.ep_node_count) =>
        /\ routed.permuted_src = routed.perm[routed.src + 1]
        /\ routed.permuted_dst = routed.perm[routed.dest + 1]
        /\ ~routed.aborted \/ Len(topology.file.routes[<<0, 1>>]) = 0


\* the seed of a layer: the layer modulo the number of permutation layers,
\* or the layer itself when that number is 0
SeedOf(layer_id, num_layers) ==
    IF num_layers > 0 THEN layer_id % num_layers ELSE layer_id

\* C33: get_permutation(l) returns a bijection of [0, ep_node_count) that
\* depends only on l mod num_permutation_layers, or on l itself when
\* num_permutation_layers = 0: it is the permutation of that seed whatever
\* calls of get_permutation and of set_num_permutation_layers came before,
\* and every cached permutation is the permutation of its seed.
C33_PermutationDependsOnSeedOnly ==
    topology.kind = "EpExpander" =>
        /\ \A on \in EpInstances :
              topology[on].constructed =>
                  \A seed \in DOMAIN topology[on].layer_permutations :
                      topology[on].layer_permutations[seed]
                          = topology.shuffle[seed]
        /\ (routed.called /\ routed.op = "get_permutation") =>
              LET t == topology[routed.on]
              IN  /\ Len(routed.perm) = t.ep_node_count
                  /\ \A rank \in 0 .. t.ep_node_count - 1 :
                        \E i \in 1 .. Len(routed.perm) : routed.perm[i] = rank
                  /\ routed.perm =
                        topology.shuffle[SeedOf(routed.layer,
                                                t.num_permutation_layers)]

\* with 1 permutation layer set on the original, layer 1 has the permutation
\* of seed 0 there, while the clone has cached the different one of seed 1
C33_Witness ==
    /\ topology.kind = "EpExpander"
    /\ routed.called
    /\ routed.op = "get_permutation"
    /\ routed.on = "original"
    /\ routed.layer = 1
    /\ topology.original.num_permutation_layers = 1
    /\ topology.clone.constructed
    /\ 1 \in DOMAIN topology.clone.layer_permutations
    /\ routed.perm = topology.shuffle[0]
    /\ topology.shuffle[0] # topology.shuffle[1]


\* C34: between two events every link whose pending queue is not empty is
\* busy; a free link has an empty pending queue, so no chunk waits at an
\* idle link.
C34_NoChunkWaitsAtFreeLink ==
    \A l \in links : ~busy[l] => Len(pending_chunks[l]) = 0

\* a link that had chunks waiting has served them all and is free again,
\* while chunks still wait at another, busy link
C34_Witness ==
    \E l \in links :
        /\ ~busy[l]
        /\ Len(sendLog[l]) >= 2
        /\ Len(arriveLog[l]) = Len(sendLog[l])
        /\ \E m \in links \ {l} : busy[m] /\ pending_chunks[m] # <<>>


\* the links between consecutive devices of a route, in both directions
RouteLinks(route) ==
    UNION {Topology_connect(route[i], route[i + 1]) :
              i \in 1 .. Len(route) - 1}

\* C36: a call of the dimension-ordered route() leaves every existing link
\* as it is: no link that exists before the call is made again by connect()
\* (so it keeps its bandwidth and latency), its busy flag and its pending
\* queue are unchanged, the links added lie between consecutive devices of
\* the returned route, and a second call for the same pair adds no link.
C36_RouteKeepsExistingLinks ==
    [][(topology.kind = "MultiDim" /\ routed'.calls = routed.calls + 1) =>
          /\ links \subseteq links'
          /\ routed'.created \cap links = {}
          /\ \A l \in links :
                /\ busy'[l] = busy[l]
                /\ pending_chunks'[l] = pending_chunks[l]
          /\ ~routed'.aborted =>
                /\ links' \ links = routed'.created
                /\ routed'.created \subseteq RouteLinks(routed'.route)
          /\ (/\ routed.called
              /\ ~routed.aborted
              /\ routed'.src = routed.src
              /\ routed'.dest = routed.dest) => links' = links]_vars

\* a second route was asked for while the chunk of the first occupies a
\* link: it runs over that link and connects two more devices
C36_Witness ==
    /\ topology.kind = "MultiDim"
    /\ routed.calls = 2
    /\ ~routed.aborted
    /\ routed.created # {}
    /\ \E l \in links \ routed.created :
          /\ busy[l]
          /\ l \in RouteLinks(routed.route)


\* C32: with resiliency spares and a full-graph file of
\* npus_count + npus_count / 8 nodes, the construction of the ExpanderGraph
\* completes and connects every edge of the adjacency, the edges at the
\* spare nodes npus_count .. npus_count + npus_count / 8 - 1 included.
C32_SparesAreConnected ==
    (/\ topology.kind = "ExpanderSpares"
     /\ topology.outcome # ""
     /\ topology.use_resiliency
     /\ topology.file.node_count
            = topology.npus_count + topology.npus_count \div 8) =>
        /\ topology.outcome = "constructed"
        /\ \A u \in DOMAIN topology.file.connected_graph_adjacency :
              \A v \in Range(topology.file.connected_graph_adjacency[u]) :
                  /\ v \in Range(topology.adjacency_list[u])
                  /\ u \in Range(topology.adjacency_list[v])
                  /\ <<u, v>> \in links
                  /\ <<v, u>> \in links

\* the part that holds: the construction completes and connects every edge
\* when no edge is at a spare node or the build has no assertions
C32_ConnectedWithoutAssertions ==
    (/\ topology.kind = "ExpanderSpares"
     /\ topology.outcome # ""
     /\ topology.use_resiliency
     /\ topology.file.node_count
            = topology.npus_count + topology.npus_count \div 8
     /\ \/ ~topology.asserts
        \/ topology.file.connected_graph_adjacency[SpareNpus] = <<>>) =>
        /\ topology.outcome = "constructed"
        /\ \A u \in DOMAIN topology.file.connected_graph_adjacency :
              \A v \in Range(topology.file.connected_graph_adjacency[u]) :
                  /\ <<u, v>> \in links
                  /\ <<v, u>> \in links


\* the dimensions in which two devices have different coordinates, computed
\* from the ids: dimension 1 varies fastest
CoordinateOf(npd, id, dim) ==
    (id \div MultiDim_npus_count(SubSeq(npd, 1, dim - 1))) % npd[dim]

DifferingDims(npd, a, b) ==
    {dim \in 1 .. Len(npd) : CoordinateOf(npd, a, dim) # CoordinateOf(npd, b, dim)}

\* C35: in the single-dimension variant route(src, dest) returns the local
\* route, between the coordinates of src and dest, of the slice of src in
\* the one dimension in which they differ, a slice that src shares exactly
\* with the devices that differ from it in that dimension only; when src and
\* dest differ in no dimension or in more than one, the program exits and
\* no route is returned.
C35_SingleDimensionRoute ==
    (topology.kind = "SingleDim" /\ routed.called) =>
        LET npd == npus_count_per_dim(topology.dims)
            differing == DifferingDims(npd, routed.src, routed.dest)
        IN  IF Cardinality(differing) = 1
            THEN \E dim \in differing :
                    /\ routed.outcome = "route"
                    /\ failed = ""
                    /\ routed.dim = dim
                    /\ routed.route =
                          BasicTopology_route(
                              topology.dims[dim],
                              CoordinateOf(npd, routed.src, dim),
                              CoordinateOf(npd, routed.dest, dim))
                    /\ routed.slice_index \in 0 .. slices_count(npd, dim) - 1
                    /\ \A other \in 0 .. (topology.npus_count - 1) :
                          (get_slice_index(npd, dim,
                                           translate_address(npd, other))
                               = routed.slice_index)
                          <=> DifferingDims(npd, routed.src, other)
                                  \subseteq {dim}
            ELSE /\ routed.outcome = "exit"
                 /\ failed = "exit"
                 /\ routed.route = <<>>

\* a route along the second of two dimensions, over the switch of its slice
C35_Witness ==
    /\ topology.kind = "SingleDim"
    /\ routed.called
    /\ routed.outcome = "route"
    /\ Len(topology.dims) = 2
    /\ routed.dim = 2
    /\ routed.slice_index = 1
    /\ Len(routed.route) = 3

\* src and dest differ in two dimensions and the program has exited
C35_WitnessExit ==
    /\ topology.kind = "SingleDim"
    /\ routed.called
    /\ routed.outcome = "exit"
    /\ Cardinality(DifferingDims(npus_count_per_dim(topology.dims),
                                 routed.src, routed.dest)) = 2

====
